---- MODULE Spec2Model ----
(***************************************************************************)
(* State-machine model of the SpaceBear arcade shooter's encounter core:   *)
(* the Boss phase/attack machine (src/src/sprites/Boss.js with the attack  *)
(* strategies of BossAttacks.js), the BossManager / EnemySpawner gate,     *)
(* the collectibles (PowerUp, Coin), the object pools and the GameState    *)
(* ledger.  Times are milliseconds, as in the source.                      *)
(***************************************************************************)
EXTENDS Integers, Sequences, FiniteSets, TLC

VARIABLES
    now,        \* scene clock (scene.time.now), ms
    boss,       \* the Boss instance (fields of Boss.js), or NoBoss
    tween,      \* the attack wind-up tween started by an attack strategy
    deathTweens,\* number of running death-sequence tweens (Boss.die)
    stats,      \* observation counters of the current encounter
    tick,       \* what the last Boss.preUpdate did
    player,     \* the Player fields the core reads
    mgr,        \* BossManager fields
    spawner,    \* EnemySpawner fields
    timers,     \* pending scene.time.delayedCall callbacks of BossManager
    items,      \* pooled collectibles (PowerUp / Coin instances)
    ledger,     \* what collecting has applied so far
    pools,      \* object pools (Phaser groups with maxSize)
    gs,         \* GameState fields and who wrote them
    mine,       \* one Mine instance
    enemy,      \* one Enemy instance
    hit,        \* what the last collision callback of CollisionManager did
    dm,         \* DifficultyManager fields
    upd,        \* what the last BossManager.update call did
    spawn,      \* what the last spawnFormation / spawnSingleEnemy / spawnBoss call did
    progress    \* ProgressManager: the progress, its saved copy and the last call

vars == <<now, boss, tween, deathTweens, stats, tick, player, mgr, spawner,
          timers, items, ledger, pools, gs, mine, enemy, hit, dm, upd, spawn,
          progress>>

bossVars == <<boss, tween, deathTweens, stats, tick>>
mgrVars == <<mgr, spawner, timers, dm, upd>>
itemVars == <<items, ledger>>
stateVars == <<gs, mine, enemy, hit, spawn, progress>>

-----------------------------------------------------------------------------
(* Bounds of the model *)

\* largest scene time explored, ms
MaxTime == 3000
\* largest number of takeDamage calls on one boss
MaxHits == 3

\* frame lengths explored (game.loop.delta), ms
Deltas == {250, 1000}
\* takeDamage amounts explored: a bullet (1), a burst (105), the dev console's
\* kill (9999) and a negative amount (health restored)
Amounts == {1, 105, 9999, -105}

-----------------------------------------------------------------------------
(* GameConfig.BOSS *)

BOSS_MAX_HEALTH == 300
BOSS_POINTS == 5000
ENTER_SPEED == 100
Y_POSITION == 80
BOSS_START_Y == -100
\* thresholds in percent (0.66, 0.33)
PHASE_2_THRESHOLD == 66
PHASE_3_THRESHOLD == 33
SPRAY_COOLDOWN == 2000
AIMED_COOLDOWN == 1500
SUMMON_COOLDOWN == 5000
RING_COOLDOWN == 3000
\* phase 3 speed multiplier in percent (0.5)
PHASE_3_SPEED_MULT == 50
SUMMON_FIGHTERS == 3
SUMMON_HEAVIES == 2

BossTypeKeys == {"megaship", "destroyer", "carrier"}

\* GameConfig.BOSS.TYPES; cooldown multipliers in percent, 0 = not configured
BossTypes(type) ==
    CASE type = "megaship" ->
           [health |-> 300, points |-> 5000,
            attacks |-> {"spray", "aimed", "summon"},
            phase3Attacks |-> {"spray", "aimed", "ring", "summon"},
            summonTypes |-> {"fighter", "heavy"},
            sprayCooldownMult |-> 0, summonCooldownMult |-> 0, summonCount |-> 0]
      [] type = "destroyer" ->
           [health |-> 400, points |-> 7500,
            attacks |-> {"spray", "ring"},
            phase3Attacks |-> {"spray", "ring", "aimed"},
            summonTypes |-> {"bomber"},
            sprayCooldownMult |-> 80, summonCooldownMult |-> 0, summonCount |-> 0]
      [] type = "carrier" ->
           [health |-> 500, points |-> 10000,
            attacks |-> {"aimed", "summon"},
            phase3Attacks |-> {"aimed", "summon", "spray"},
            summonTypes |-> {"fighter", "scout", "heavy"},
            sprayCooldownMult |-> 0, summonCooldownMult |-> 60, summonCount |-> 5]

\* JS `x || d` on a number: 0 (here: not configured) falls back to d
OrDefault(x, d) == IF x = 0 THEN d ELSE x

\* Boss constructor: the instance after `new Boss(scene, x, -100, type)`
\* followed by setBulletGroup (BossManager.spawnBoss), and whether
\* console.warn was called; an unknown key (Boss.getTypeConfig returns
\* undefined) becomes 'megaship'
BossConstructor(type) ==
    LET known == type \in BossTypeKeys
        t == IF known THEN type ELSE "megaship"
        tc == IF known THEN BossTypes(type) ELSE BossTypes("megaship")
    IN
    [warned |-> ~known,
     boss |->
    [active |-> TRUE,
     type |-> t,
     maxHealth |-> OrDefault(tc.health, BOSS_MAX_HEALTH),
     health |-> OrDefault(tc.health, BOSS_MAX_HEALTH),
     points |-> OrDefault(tc.points, BOSS_POINTS),
     y |-> BOSS_START_Y,
     isEntering |-> TRUE,
     currentPhase |-> 1,
     sprayCooldown |-> (SPRAY_COOLDOWN * OrDefault(tc.sprayCooldownMult, 100)) \div 100,
     aimedCooldown |-> AIMED_COOLDOWN,
     summonCooldown |-> (SUMMON_COOLDOWN * OrDefault(tc.summonCooldownMult, 100)) \div 100,
     ringCooldown |-> RING_COOLDOWN,
     lastSprayTime |-> 0,
     lastAimedTime |-> 0,
     lastSummonTime |-> 0,
     lastRingTime |-> 0,
     summonFighters |-> OrDefault(tc.summonCount, SUMMON_FIGHTERS),
     summonHeavies |-> OrDefault(tc.summonCount, SUMMON_HEAVIES),
     attacks |-> tc.attacks,
     phase3Attacks |-> tc.phase3Attacks,
     summonTypes |-> tc.summonTypes,
     bulletGroup |-> TRUE,
     isAttacking |-> FALSE,
     isDying |-> FALSE,
     bodyEnabled |-> TRUE]]

\* the instance the Boss constructor builds
NewBoss(type) == BossConstructor(type).boss

\* no boss has been created yet
NoBoss == [NewBoss("megaship") EXCEPT !.active = FALSE, !.type = "none"]

-----------------------------------------------------------------------------
(* Boss.js *)

\* Boss.getCurrentPhase: health / maxHealth against the two thresholds
getCurrentPhase(b) ==
    IF 100 * b.health <= PHASE_3_THRESHOLD * b.maxHealth THEN 3
    ELSE IF 100 * b.health <= PHASE_2_THRESHOLD * b.maxHealth THEN 2
    ELSE 1

\* Boss.die that never sets the isDying flag
dieWithoutFlag(b) == [b EXCEPT !.bodyEnabled = FALSE]

\* Boss.onPhaseChange that leaves the stored phase as it was
onPhaseChangeStale(b, newPhase) == b

\* Boss.onPhaseChange: stores the new phase (the rest is visual)
onPhaseChange(b, newPhase) == [b EXCEPT !.currentPhase = newPhase]

\* Boss.die: sets the terminal flag, disables the body; the death tween it
\* starts is counted by the caller
die(b) == [b EXCEPT !.isDying = TRUE, !.bodyEnabled = FALSE]

\* Boss.takeDamage without the isDying guard
takeDamageNoGuard(b, amount) ==
    LET b1 == [b EXCEPT !.health = b.health - amount]
        newPhase == getCurrentPhase(b1)
        b2 == IF newPhase # b1.currentPhase THEN onPhaseChange(b1, newPhase) ELSE b1
    IN IF b2.health <= 0
       THEN [boss |-> die(b2), died |-> TRUE, dieCalls |-> 1]
       ELSE [boss |-> b2, died |-> FALSE, dieCalls |-> 0]

\* Boss.takeDamage: the boss after the call, the returned flag, and the
\* number of die() calls made
takeDamage(b, amount) ==
    IF b.isDying THEN [boss |-> b, died |-> FALSE, dieCalls |-> 0]
    ELSE LET b1 == [b EXCEPT !.health = b.health - amount]
             newPhase == getCurrentPhase(b1)
             b2 == IF newPhase # b1.currentPhase
                   THEN onPhaseChange(b1, newPhase) ELSE b1
         IN IF b2.health <= 0
            THEN [boss |-> die(b2), died |-> TRUE, dieCalls |-> 1]
            ELSE [boss |-> b2, died |-> FALSE, dieCalls |-> 0]

\* Boss.hasAttack: membership in the attack list of the stored phase
hasAttack(b, attackName) ==
    LET attackList == IF b.currentPhase = 3 THEN b.phase3Attacks ELSE b.attacks
    IN attackName \in attackList

-----------------------------------------------------------------------------
(* BossAttacks.js: each execute gives the boss after the call, the wind-up  *)
(* tween it started ("none" when it started none) and the bossSummon        *)
(* request it emitted (NoSummon when none)                                  *)

NoSummon == [count |-> 0, type |-> "none"]

\* SprayAttack.execute
SprayExecute(b) ==
    [boss |-> [b EXCEPT !.isAttacking = TRUE], tween |-> "spray", summon |-> NoSummon]

\* AimedAttack.execute: returns at once when there is no active player
AimedExecute(b, pl) ==
    IF ~pl.active
    THEN [boss |-> b, tween |-> "none", summon |-> NoSummon]
    ELSE [boss |-> [b EXCEPT !.isAttacking = TRUE], tween |-> "aimed", summon |-> NoSummon]

\* RingAttack.execute
RingExecute(b) ==
    [boss |-> [b EXCEPT !.isAttacking = TRUE], tween |-> "ring", summon |-> NoSummon]

\* SummonAttack.execute: emits bossSummon {count, type}
SummonExecute(b) ==
    [boss |-> b, tween |-> "none",
     summon |-> [count |-> IF b.currentPhase = 3 THEN SUMMON_HEAVIES ELSE SUMMON_FIGHTERS,
                 type |-> IF b.currentPhase = 3 THEN "heavy" ELSE "fighter"]]

\* what one updateAttacks call did when it selected nothing
NoAttack(b) == [boss |-> b, selected |-> "none", tween |-> "none", summon |-> NoSummon]

\* the result of a selected attack: its execute, then its last-fired time
Fired(name, r, b2) ==
    [boss |-> b2, selected |-> name, tween |-> r.tween, summon |-> r.summon]

\* Boss.updateAttacks with the `return` after the spray branch missing
updateAttacksFallThrough(b, time, pl) ==
    LET cooldownMult == IF b.currentPhase = 3 THEN PHASE_3_SPEED_MULT ELSE 100
        b1 == IF hasAttack(b, "spray")
                 /\ 100 * (time - b.lastSprayTime) >= b.sprayCooldown * cooldownMult
              THEN [SprayExecute(b).boss EXCEPT !.lastSprayTime = time]
              ELSE b
    IN IF ~b.bulletGroup \/ b.isAttacking THEN NoAttack(b)
       ELSE IF hasAttack(b1, "aimed")
               /\ 100 * (time - b1.lastAimedTime) >= b1.aimedCooldown * cooldownMult
       THEN LET r == AimedExecute(b1, pl)
            IN Fired("aimed", r, [r.boss EXCEPT !.lastAimedTime = time])
       ELSE IF b1 # b THEN Fired("spray", SprayExecute(b), b1) ELSE NoAttack(b)

\* Boss.updateAttacks: the first branch whose condition holds runs and returns
updateAttacks(b, time, pl) ==
    LET cooldownMult == IF b.currentPhase = 3 THEN PHASE_3_SPEED_MULT ELSE 100
    IN IF ~b.bulletGroup \/ b.isAttacking THEN NoAttack(b)
       ELSE IF hasAttack(b, "spray")
               /\ 100 * (time - b.lastSprayTime) >= b.sprayCooldown * cooldownMult
       THEN LET r == SprayExecute(b)
            IN Fired("spray", r, [r.boss EXCEPT !.lastSprayTime = time])
       ELSE IF hasAttack(b, "aimed")
               /\ 100 * (time - b.lastAimedTime) >= b.aimedCooldown * cooldownMult
       THEN LET r == AimedExecute(b, pl)
            IN Fired("aimed", r, [r.boss EXCEPT !.lastAimedTime = time])
       ELSE IF b.currentPhase >= 2 /\ hasAttack(b, "summon")
               /\ 100 * (time - b.lastSummonTime) >= b.summonCooldown * cooldownMult
       THEN LET r == SummonExecute(b)
            IN Fired("summon", r, [r.boss EXCEPT !.lastSummonTime = time])
       ELSE IF hasAttack(b, "ring")
               /\ 100 * (time - b.lastRingTime) >= b.ringCooldown * cooldownMult
       THEN LET r == RingExecute(b)
            IN Fired("ring", r, [r.boss EXCEPT !.lastRingTime = time])
       ELSE NoAttack(b)

\* the entrance step of Boss.preUpdate
enterStep(b, delta) ==
    LET y1 == b.y + (ENTER_SPEED * delta) \div 1000
    IN IF y1 >= Y_POSITION
       THEN [b EXCEPT !.y = Y_POSITION, !.isEntering = FALSE]
       ELSE [b EXCEPT !.y = y1]

\* the record kept of one Boss.preUpdate call
NoTick == [evaluated |-> FALSE, selected |-> "none", tween |-> "none",
           summon |-> NoSummon, time |-> 0, before |-> NoBoss]

\* Boss.preUpdate whose entrance branch falls through to the attack logic
preUpdateNoEntranceReturn(b, time, delta, pl) ==
    IF b.isDying THEN [boss |-> b, tick |-> NoTick]
    ELSE LET b1 == IF b.isEntering THEN enterStep(b, delta) ELSE b
             r == updateAttacks(b1, time, pl)
         IN [boss |-> r.boss,
             tick |-> [evaluated |-> ~(~b1.bulletGroup \/ b1.isAttacking),
                       selected |-> r.selected, tween |-> r.tween,
                       summon |-> r.summon, time |-> time, before |-> b1]]

\* Boss.preUpdate(time, delta): dying bosses do nothing, entering bosses
\* descend, patrolling bosses evaluate their attacks
preUpdate(b, time, delta, pl) ==
    IF b.isDying THEN [boss |-> b, tick |-> NoTick]
    ELSE IF b.isEntering THEN [boss |-> enterStep(b, delta), tick |-> NoTick]
    ELSE LET r == updateAttacks(b, time, pl)
         IN [boss |-> r.boss,
             tick |-> [evaluated |-> ~(~b.bulletGroup \/ b.isAttacking),
                       selected |-> r.selected, tween |-> r.tween,
                       summon |-> r.summon, time |-> time, before |-> b]]

-----------------------------------------------------------------------------
(* One boss encounter: the frame loop, the hits and the tweens *)

NoTween == [kind |-> "none", stage |-> "none", fired |-> FALSE]

InitStats == [hits |-> 0, dieCount |-> 0, defeated |-> 0, lastDied |-> FALSE,
              powerUpRequests |-> 0, addScoreEvents |-> 0, scorePoints |-> 0,
              awardLifeEvents |-> 0]

\* Player constructor (the fields the core reads)
InitPlayer == [active |-> TRUE, health |-> 100, isInvincible |-> FALSE,
               shieldActive |-> FALSE, shieldTimer |-> FALSE, flashTweens |-> 0]

\* a frame: the scene clock advances by delta and Phaser calls Boss.preUpdate
BossTick(delta) ==
    /\ boss.active
    /\ now + delta <= MaxTime
    /\ LET r == preUpdate(boss, now + delta, delta, player)
       IN /\ boss' = r.boss
          /\ tick' = r.tick
          /\ tween' = IF r.tick.tween # "none"
                      THEN [kind |-> r.tick.tween, stage |-> "windup", fired |-> FALSE]
                      ELSE tween
    /\ now' = now + delta
    /\ UNCHANGED <<deathTweens, stats, player, mgrVars, itemVars, pools, stateVars>>

\* a takeDamage call on the live boss instance: CollisionManager.bulletHitBoss
\* passes 1, DevConsole.killAllEnemies passes 9999
BossHit(amount) ==
    /\ boss.active
    /\ stats.hits < MaxHits
    /\ LET r == takeDamage(boss, amount)
       IN /\ boss' = r.boss
          /\ deathTweens' = deathTweens + r.dieCalls
          /\ stats' = [stats EXCEPT !.hits = @ + 1,
                                    !.dieCount = @ + r.dieCalls,
                                    !.lastDied = r.died]
    /\ UNCHANGED <<now, tween, tick, player, mgrVars, itemVars, pools, stateVars>>

\* onYoyo firing whatever became of the boss
yoyoFiresUnguarded(b, kind, pl) ==
    kind = "aimed" => pl.active

\* the guards of the onYoyo callbacks of SprayAttack, AimedAttack and
\* RingAttack: the bullets leave unless the boss is gone or dying (aimed:
\* unless the player is gone too)
yoyoFires(b, kind, pl) ==
    /\ b.active /\ ~b.isDying
    /\ (kind = "aimed" => pl.active)

\* onYoyo of the wind-up tween
AttackTweenYoyo ==
    /\ tween.stage = "windup"
    /\ tween' = [tween EXCEPT !.stage = "recover",
                              !.fired = yoyoFires(boss, tween.kind, player)]
    /\ UNCHANGED <<now, boss, deathTweens, stats, tick, player, mgrVars, itemVars,
                   pools, stateVars>>

\* onComplete of the wind-up tween
AttackTweenComplete ==
    /\ tween.stage = "recover"
    /\ tween' = NoTween
    /\ boss' = IF boss.active THEN [boss EXCEPT !.isAttacking = FALSE] ELSE boss
    /\ UNCHANGED <<now, deathTweens, stats, tick, player, mgrVars, itemVars, pools,
                   stateVars>>

-----------------------------------------------------------------------------
(* EnemySpawner (spawn timing and the pause gate) *)

\* scene time at which the explored part of a session starts, ms
SessionStart == 28000
\* largest scene time explored with the manager and the spawner, ms
MaxEncounterTime == 33000
\* largest number of boss encounters explored
MaxBosses == 2
\* frame lengths explored for the manager and the spawner, ms
EncounterDeltas == {1000, 2000}

INITIAL_SPAWN_INTERVAL == 2000
MIN_SPAWN_INTERVAL == 1000
MAX_SPAWN_INTERVAL == 3000

\* EnemySpawner constructor; difficultyMultiplier in percent (100 is 1.0)
InitSpawner ==
    [spawnTimer |-> 0,
     spawnInterval |-> INITIAL_SPAWN_INTERVAL,
     minSpawnInterval |-> MIN_SPAWN_INTERVAL,
     maxSpawnInterval |-> MAX_SPAWN_INTERVAL,
     isPaused |-> FALSE,
     difficultyMultiplier |-> 100,
     spawnedFormation |-> FALSE]

\* the values Phaser.Math.Between(min, max) is explored with
Between(lo, hi) == {lo, (lo + hi) \div 2, hi}

\* EnemySpawner.update that spawns but keeps the interval it had
spawnerUpdateKeepsInterval(sp, delta, next) ==
    IF sp.isPaused THEN [sp EXCEPT !.spawnedFormation = FALSE]
    ELSE LET t == sp.spawnTimer + delta
         IN IF t >= sp.spawnInterval
            THEN [sp EXCEPT !.spawnTimer = 0, !.spawnedFormation = TRUE]
            ELSE [sp EXCEPT !.spawnTimer = t, !.spawnedFormation = FALSE]

\* EnemySpawner.update(time, delta) drawing `next` as the new interval;
\* spawnedFormation records whether this call spawned a formation
spawnerUpdate(sp, delta, next) ==
    IF sp.isPaused THEN [sp EXCEPT !.spawnedFormation = FALSE]
    ELSE LET t == sp.spawnTimer + delta
         IN IF t >= sp.spawnInterval
            THEN [sp EXCEPT !.spawnTimer = 0, !.spawnInterval = next,
                            !.spawnedFormation = TRUE]
            ELSE [sp EXCEPT !.spawnTimer = t, !.spawnedFormation = FALSE]

\* EnemySpawner.pause that also restarts the spawn timer
pauseResetsTimer(sp) == [sp EXCEPT !.isPaused = TRUE, !.spawnTimer = 0]

\* EnemySpawner.pause
pause(sp) == [sp EXCEPT !.isPaused = TRUE]

\* resume that leaves the spawner paused
resumeStaysPaused(sp) == sp

\* EnemySpawner.resume
resume(sp) == [sp EXCEPT !.isPaused = FALSE]

-----------------------------------------------------------------------------
(* DifficultyManager *)

\* highest difficulty level explored
MaxDifficulty == 12
\* frame lengths explored for DifficultyManager.update, ms
DifficultyDeltas == {0, 10000, 30000}

DIFFICULTY_INTERVAL == 30000
INITIAL_MINE_SPAWN_INTERVAL == 3000
MIN_MINE_SPAWN_INTERVAL == 2000
MINE_INTERVAL_BASE == 5000
MINE_INTERVAL_REDUCTION == 300
SPAWN_INTERVAL_REDUCTION == 100
MAX_SPAWN_REDUCTION == 200
MIN_SPAWN_FLOOR == 500
MAX_SPAWN_FLOOR == 1000

\* Math.max
Max(a, b) == IF a >= b THEN a ELSE b

\* DifficultyManager constructor with its default arguments; increased is the
\* value the last update returned
NewDifficultyManager ==
    [difficulty |-> 1,
     difficultyInterval |-> DIFFICULTY_INTERVAL,
     mineSpawnInterval |-> INITIAL_MINE_SPAWN_INTERVAL,
     difficultyTimer |-> 0,
     increased |-> FALSE]

\* increaseDifficulty lowering the level
increaseDifficultyDown(d, sp) ==
    [dm |-> [d EXCEPT !.difficulty = @ - 1], spawner |-> sp]

\* increaseDifficulty without the floors of the spawner's bounds
increaseDifficultyNoFloor(d, sp) ==
    LET difficulty == d.difficulty + 1
    IN [dm |-> [d EXCEPT !.difficulty = difficulty,
                         !.mineSpawnInterval =
                             Max(MIN_MINE_SPAWN_INTERVAL,
                                 MINE_INTERVAL_BASE - difficulty * MINE_INTERVAL_REDUCTION)],
        spawner |-> [sp EXCEPT
            !.difficultyMultiplier = 100 + (difficulty - 1) * 10,
            !.minSpawnInterval = MIN_SPAWN_INTERVAL - difficulty * SPAWN_INTERVAL_REDUCTION,
            !.maxSpawnInterval = MAX_SPAWN_INTERVAL - difficulty * MAX_SPAWN_REDUCTION]]

\* DifficultyManager.increaseDifficulty(enemySpawner): the manager and the
\* spawner afterwards
increaseDifficulty(d, sp) ==
    LET difficulty == d.difficulty + 1
    IN [dm |-> [d EXCEPT !.difficulty = difficulty,
                         !.mineSpawnInterval =
                             Max(MIN_MINE_SPAWN_INTERVAL,
                                 MINE_INTERVAL_BASE - difficulty * MINE_INTERVAL_REDUCTION)],
        spawner |-> [sp EXCEPT
            !.difficultyMultiplier = 100 + (difficulty - 1) * 10,
            !.minSpawnInterval =
                Max(MIN_SPAWN_FLOOR,
                    MIN_SPAWN_INTERVAL - difficulty * SPAWN_INTERVAL_REDUCTION),
            !.maxSpawnInterval =
                Max(MAX_SPAWN_FLOOR,
                    MAX_SPAWN_INTERVAL - difficulty * MAX_SPAWN_REDUCTION)]]

\* DifficultyManager.update raising the level and returning false
difficultyUpdateSilent(d, sp, delta) ==
    LET t == d.difficultyTimer + delta
    IN IF t >= d.difficultyInterval
       THEN LET r == increaseDifficulty([d EXCEPT !.difficultyTimer = 0], sp)
            IN [dm |-> [r.dm EXCEPT !.increased = FALSE], spawner |-> r.spawner]
       ELSE [dm |-> [d EXCEPT !.difficultyTimer = t, !.increased = FALSE],
             spawner |-> sp]

\* DifficultyManager.update(delta, enemySpawner)
difficultyUpdate(d, sp, delta) ==
    LET t == d.difficultyTimer + delta
    IN IF t >= d.difficultyInterval
       THEN LET r == increaseDifficulty([d EXCEPT !.difficultyTimer = 0], sp)
            IN [dm |-> [r.dm EXCEPT !.increased = TRUE], spawner |-> r.spawner]
       ELSE [dm |-> [d EXCEPT !.difficultyTimer = t, !.increased = FALSE],
             spawner |-> sp]

-----------------------------------------------------------------------------
(* BossManager *)

FIRST_SPAWN_DELAY == 30000
SPAWN_INTERVAL == 120000
RESUME_DELAY == 2000

\* GameConfig.BOSS.SPAWN_ORDER
SPAWN_ORDER == <<"megaship", "destroyer", "carrier">>

\* BossManager constructor; created counts the Boss instances spawnBoss has
\* constructed
InitMgr ==
    [hasBoss |-> FALSE,
     created |-> 0,
     spawnTimer |-> 0,
     isFirstBoss |-> TRUE,
     currentBossIndex |-> 0,
     bossesDefeated |-> 0,
     isBossFight |-> FALSE]

\* BossManager.getNextBossType
getNextBossType(m) == SPAWN_ORDER[m.currentBossIndex + 1]

\* advanceBossType without the wrap to the first entry
advanceBossTypeNoWrap(m) ==
    [m EXCEPT !.currentBossIndex = m.currentBossIndex + 1]

\* BossManager.advanceBossType
advanceBossType(m) ==
    [m EXCEPT !.currentBossIndex = (m.currentBossIndex + 1) % Len(SPAWN_ORDER)]

\* isBossActive that takes a dying boss for gone
isBossActiveUnlessDying(m, b) ==
    m.isBossFight /\ m.hasBoss /\ b.active /\ ~b.isDying

\* BossManager.isBossActive
isBossActive(m, b) == m.isBossFight /\ m.hasBoss /\ b.active

\* BossManager.spawnBoss: the manager, the new boss and the spawner after it
spawnBoss(m, sp) ==
    [mgr |-> [m EXCEPT !.spawnTimer = 0, !.isFirstBoss = FALSE,
                       !.hasBoss = TRUE, !.isBossFight = TRUE,
                       !.created = @ + 1],
     boss |-> NewBoss(getNextBossType(m)),
     spawner |-> pause(sp),
     spawned |-> TRUE]

\* no forced type: BossManager.spawnBoss's forceType = null
NoType == "null"

\* BossManager.spawnBoss(forceType): as spawnBoss, the boss being of the
\* forced type when one is given (forceType || this.getNextBossType())
spawnBossForced(m, sp, forceType) ==
    LET bossType == IF forceType = NoType THEN getNextBossType(m) ELSE forceType
    IN [spawnBoss(m, sp) EXCEPT !.boss = NewBoss(bossType)]

\* BossManager.update that keeps counting during a boss fight
mgrUpdateDuringFight(m, sp, b, delta) ==
    LET m1 == [m EXCEPT !.spawnTimer = m.spawnTimer + delta]
        threshold == IF m1.isFirstBoss THEN FIRST_SPAWN_DELAY ELSE SPAWN_INTERVAL
    IN IF m1.spawnTimer >= threshold
       THEN spawnBoss(m1, sp)
       ELSE [mgr |-> m1, boss |-> b, spawner |-> sp, spawned |-> FALSE]

\* BossManager.update(delta)
mgrUpdate(m, sp, b, delta) ==
    IF m.isBossFight THEN [mgr |-> m, boss |-> b, spawner |-> sp, spawned |-> FALSE]
    ELSE LET m1 == [m EXCEPT !.spawnTimer = m.spawnTimer + delta]
             threshold == IF m1.isFirstBoss THEN FIRST_SPAWN_DELAY ELSE SPAWN_INTERVAL
         IN IF m1.spawnTimer >= threshold
            THEN spawnBoss(m1, sp)
            ELSE [mgr |-> m1, boss |-> b, spawner |-> sp, spawned |-> FALSE]

\* no BossManager.update call was made yet
NoUpdate == [ran |-> FALSE, fight |-> FALSE, first |-> FALSE, before |-> 0,
             delta |-> 0, after |-> 0, spawned |-> FALSE]

\* the record of one BossManager.update(delta) call on manager m with result
\* r: whether a fight was on and the first boss still due, the timer before
\* and after, and whether the call spawned a boss
UpdateOf(m, delta, r) ==
    [ran |-> TRUE, fight |-> m.isBossFight, first |-> m.isFirstBoss,
     before |-> m.spawnTimer, delta |-> delta, after |-> r.mgr.spawnTimer,
     spawned |-> r.spawned]

\* the delayed-call delays that are still pending after a frame of delta ms
Elapse(ts, delta) == {t - delta : t \in {u \in ts : u > delta}}

\* the resume callback of onBossDefeated ran in this frame
ResumeDue(ts, delta) == \E t \in ts : t <= delta

-----------------------------------------------------------------------------
(* Collectibles: PowerUp.js and Coin.js instances of the two pools *)

\* pooled instances explored per kind
NumSlots == 2
\* largest number of spawns explored
MaxSpawns == 2
\* largest number of collect calls on one spawned instance
MaxCalls == 2

Slots == 1..NumSlots

\* keys of GameConfig.POWER_UP.TYPES explored; laser stands for the weapon
\* pickups (entries with a weaponType)
PowerUpTypeKeys == {"health", "weapon", "speed", "shield", "laser"}
\* the types dropped when collecting is explored
CollectTypeKeys == {"health", "shield", "laser"}
\* coin values explored: the ends of the fighter's credit range
CoinValues == {5, 15}

HEAL_AMOUNT == 25
PLAYER_MAX_HEALTH == 100

\* GameConfig.POWER_UP.TYPES[type].weaponType, "none" when the entry has none
WeaponTypeOf(type) == IF type = "laser" THEN "laser" ELSE "none"

\* a pooled instance before its first spawn; calls, applied and credited
\* observe the current spawn: collect calls made, effects applied, credits sent
\* lapsed tells that the current spawn left play without being collected,
\* stale that it did so in the onComplete of a tween started before it was
\* spawned
FreshItem == [active |-> FALSE, visible |-> FALSE, type |-> "none", value |-> 0,
              pending |-> 0, calls |-> 0, applied |-> 0, credited |-> 0,
              lapsed |-> FALSE, stale |-> FALSE]

InitItems == [pu |-> [i \in Slots |-> FreshItem], coin |-> [i \in Slots |-> FreshItem]]

\* what collecting has done to the player and the event bus so far
InitLedger == [spawns |-> 0, heals |-> 0, weaponUps |-> 0, speedBoosts |-> 0,
               shields |-> 0, weaponSwitches |-> 0, creditEvents |-> 0,
               credits |-> 0]

\* ProgressManager constructor with nothing stored: getDefaultProgress();
\* saved is the balance last written by save(), op / amount / ok the last
\* credit call, its argument and what spendCredits returned
NewProgressManager ==
    [totalCredits |-> 0, saved |-> 0, op |-> "none", amount |-> 0, ok |-> FALSE]

\* ProgressManager.save
save(pr) == [pr EXCEPT !.saved = pr.totalCredits]

\* ProgressManager.addCredits(amount)
addCredits(pr, amount) ==
    save([pr EXCEPT !.totalCredits = @ + amount, !.op = "addCredits",
                    !.amount = amount, !.ok = FALSE])

\* spendCredits without the balance test
spendCreditsUnchecked(pr, amount) ==
    save([pr EXCEPT !.totalCredits = @ - amount, !.op = "spendCredits",
                    !.amount = amount, !.ok = TRUE])

\* ProgressManager.spendCredits(amount): ok is the value returned
spendCredits(pr, amount) ==
    IF pr.totalCredits < amount
    THEN [pr EXCEPT !.op = "spendCredits", !.amount = amount, !.ok = FALSE]
    ELSE save([pr EXCEPT !.totalCredits = @ - amount, !.op = "spendCredits",
                         !.amount = amount, !.ok = TRUE])

\* PowerUp.spawn(x, y, type) on the instance the pool handed out
powerUpSpawn(it, type) ==
    [it EXCEPT !.active = TRUE, !.visible = TRUE, !.type = type,
               !.calls = 0, !.applied = 0, !.credited = 0, !.lapsed = FALSE,
               !.stale = FALSE]

\* Coin.spawn(x, y, value)
coinSpawn(it, value) ==
    [it EXCEPT !.active = TRUE, !.visible = TRUE, !.value = value,
               !.calls = 0, !.applied = 0, !.credited = 0, !.lapsed = FALSE,
               !.stale = FALSE]

\* PowerUp.deactivate / Coin.deactivate: also kills every tween of the instance
deactivate(it) ==
    [it EXCEPT !.active = FALSE, !.visible = FALSE, !.pending = 0,
               !.lapsed = it.lapsed \/ it.active]

\* Player.heal
heal(pl, amount) ==
    [pl EXCEPT !.health = IF pl.health + amount > PLAYER_MAX_HEALTH
                          THEN PLAYER_MAX_HEALTH ELSE pl.health + amount]

\* Player.applyShield(duration): a running shield timer is removed, the flags
\* are set and a new timer is started
applyShield(pl) ==
    [pl EXCEPT !.shieldActive = TRUE, !.isInvincible = TRUE, !.shieldTimer = TRUE]

\* Player.deactivateShield
deactivateShield(pl) ==
    [pl EXCEPT !.shieldActive = FALSE, !.isInvincible = FALSE]

\* PowerUp.applyEffect: the player and the ledger after the effect
applyEffect(pl, lg, type) ==
    IF WeaponTypeOf(type) # "none"
    THEN [player |-> pl, ledger |-> [lg EXCEPT !.weaponSwitches = @ + 1]]
    ELSE CASE type = "health" ->
                [player |-> heal(pl, HEAL_AMOUNT), ledger |-> [lg EXCEPT !.heals = @ + 1]]
           [] type = "weapon" ->
                [player |-> pl, ledger |-> [lg EXCEPT !.weaponUps = @ + 1]]
           [] type = "speed" ->
                [player |-> pl, ledger |-> [lg EXCEPT !.speedBoosts = @ + 1]]
           [] type = "shield" ->
                [player |-> applyShield(pl),
                 ledger |-> [lg EXCEPT !.shields = @ + 1]]
           [] OTHER -> [player |-> pl, ledger |-> lg]

\* PowerUp.collect without the active guard
powerUpCollectNoGuard(it, pl, lg) ==
    LET e == applyEffect(pl, lg, it.type)
    IN [item |-> [it EXCEPT !.active = FALSE, !.calls = @ + 1, !.applied = @ + 1,
                            !.pending = @ + 1],
        player |-> e.player, ledger |-> e.ledger]

\* PowerUp.collect(player): guard, setActive(false), effect, collect tween
powerUpCollect(it, pl, lg) ==
    IF ~it.active
    THEN [item |-> [it EXCEPT !.calls = @ + 1], player |-> pl, ledger |-> lg]
    ELSE LET e == applyEffect(pl, lg, it.type)
         IN [item |-> [it EXCEPT !.active = FALSE, !.calls = @ + 1,
                                 !.applied = @ + 1, !.pending = @ + 1],
             player |-> e.player, ledger |-> e.ledger]

\* Coin.collect(player): guard, setActive(false), addCredits event, tween
coinCollect(it, lg) ==
    IF ~it.active
    THEN [item |-> [it EXCEPT !.calls = @ + 1], ledger |-> lg]
    ELSE [item |-> [it EXCEPT !.active = FALSE, !.calls = @ + 1,
                              !.applied = @ + 1, !.credited = @ + it.value,
                              !.pending = @ + 1],
          ledger |-> [lg EXCEPT !.creditEvents = @ + 1, !.credits = @ + it.value]]

\* Group.get on the power-up or coin pool: the first inactive instance, 0 when
\* every instance is active
FirstInactive(its) ==
    IF \E i \in Slots : ~its[i].active
    THEN CHOOSE i \in Slots : ~its[i].active /\ \A j \in Slots : ~its[j].active => i <= j
    ELSE 0

\* CollisionManager.spawnCoins after the value is drawn: the coins afterwards
spawnCoins(coins, value) ==
    LET coin == FirstInactive(coins)
    IN IF coin # 0 THEN [coins EXCEPT ![coin] = coinSpawn(@, value)] ELSE coins

\* CollisionManager.trySpawnPowerUp after the rolls: drop is "none" when the
\* global drop chance fails, else the type rolled from the table
trySpawnPowerUp(pus, drop) ==
    LET powerUp == FirstInactive(pus)
    IN IF drop = "none" \/ powerUp = 0 THEN pus
       ELSE [pus EXCEPT ![powerUp] = powerUpSpawn(@, drop)]

\* a power-up drop of the given type
SpawnPowerUp(type) ==
    /\ ledger.spawns < MaxSpawns
    /\ FirstInactive(items.pu) # 0
    /\ items' = [items EXCEPT !.pu = trySpawnPowerUp(@, type)]
    /\ ledger' = [ledger EXCEPT !.spawns = @ + 1]
    /\ UNCHANGED <<now, bossVars, player, mgrVars, pools, stateVars>>

\* a coin drop of the given value
SpawnCoin(value) ==
    /\ ledger.spawns < MaxSpawns
    /\ FirstInactive(items.coin) # 0
    /\ items' = [items EXCEPT !.coin = spawnCoins(@, value)]
    /\ ledger' = [ledger EXCEPT !.spawns = @ + 1]
    /\ UNCHANGED <<now, bossVars, player, mgrVars, pools, stateVars>>

\* CollisionManager.powerUpHitPlayer: an overlap callback on a spawned instance
PowerUpHitPlayer(i) ==
    /\ items.pu[i].type # "none"
    /\ items.pu[i].calls < MaxCalls
    /\ LET r == powerUpCollect(items.pu[i], player, ledger)
       IN /\ items' = [items EXCEPT !.pu[i] = r.item]
          /\ player' = r.player
          /\ ledger' = r.ledger
    /\ UNCHANGED <<now, bossVars, mgrVars, pools, stateVars>>

\* CollisionManager.coinHitPlayer
CoinHitPlayer(i) ==
    /\ items.coin[i].value # 0
    /\ items.coin[i].calls < MaxCalls
    /\ LET r == coinCollect(items.coin[i], ledger)
       IN /\ items' = [items EXCEPT !.coin[i] = r.item]
          /\ ledger' = r.ledger
    /\ UNCHANGED <<now, bossVars, player, mgrVars, pools, stateVars>>

\* onComplete of a collect tween: deactivate()
CollectTweenComplete(kind, i) ==
    /\ items[kind][i].pending > 0
    /\ items' = [items EXCEPT ![kind][i] =
                    [deactivate(@) EXCEPT !.stale = items[kind][i].active]]
    /\ UNCHANGED <<now, bossVars, player, mgrVars, ledger, pools, stateVars>>

\* PowerUp.preUpdate / Coin.preUpdate: an instance that left the screen or
\* outlived its lifetime is deactivated
ItemOffScreen(kind, i) ==
    /\ items[kind][i].active
    /\ items' = [items EXCEPT ![kind][i] = deactivate(@)]
    /\ UNCHANGED <<now, bossVars, player, mgrVars, ledger, pools, stateVars>>

-----------------------------------------------------------------------------
(* Object pools: the bullet groups of GameScene and PoolManager.get *)

BULLET_POOL_SIZE == 30
ENEMY_BULLET_POOL_SIZE == 50

\* a pool created without any maxSize option
UnboundedPool(name) == [name |-> name, maxSize |-> -1, size |-> 0, active |-> 0]

\* GameScene.setupBullets / GameScene.create: physics.add.group({ classType,
\* maxSize }) for the two bullet pools
CreatePool(name) ==
    [name |-> name,
     maxSize |-> IF name = "bullets" THEN BULLET_POOL_SIZE ELSE ENEMY_BULLET_POOL_SIZE,
     size |-> 0, active |-> 0]

PoolNames == {"bullets", "enemyBullets"}

\* the configured maximum of a pool (GameConfig.*.POOL_SIZE)
ConfiguredMax(name) ==
    IF name = "bullets" THEN BULLET_POOL_SIZE ELSE ENEMY_BULLET_POOL_SIZE

\* Phaser's Group.get: the first inactive member; else a new member while the
\* group is not full (maxSize -1 means no limit); else null
GroupGet(pool) ==
    IF pool.active < pool.size
    THEN [pool |-> pool, got |-> "member"]
    ELSE IF pool.maxSize = -1 \/ pool.size < pool.maxSize
         THEN [pool |-> [pool EXCEPT !.size = @ + 1], got |-> "member"]
         ELSE [pool |-> pool, got |-> "null"]

\* PoolManager.get(name, x, y): null for an unknown pool, else pool.get
PoolManagerGet(pool, name) ==
    IF name # pool.name THEN [pool |-> pool, got |-> "null"] ELSE GroupGet(pool)

\* GameScene.shoot / an enemy firing: get, null-check, fire() activates
Acquire(name) ==
    /\ LET r == PoolManagerGet(pools.pool, name)
       IN pools' = [pools EXCEPT
                    !.pool = IF r.got = "member"
                             THEN [r.pool EXCEPT !.active = @ + 1] ELSE r.pool,
                    !.lastGet = r.got,
                    !.fullBefore = (pools.pool.active = pools.pool.size
                                    /\ pools.pool.size = ConfiguredMax(pools.pool.name)
                                    /\ name = pools.pool.name),
                    !.sizeBefore = pools.pool.size]
    /\ UNCHANGED <<now, bossVars, player, mgrVars, itemVars, stateVars>>

\* BaseProjectile.preUpdate off screen, or a collision handler: setActive(false)
Release ==
    /\ pools.pool.active > 0
    /\ pools' = [pools EXCEPT !.pool.active = @ - 1, !.lastGet = "none",
                              !.fullBefore = FALSE, !.sizeBefore = pools.pool.size]
    /\ UNCHANGED <<now, bossVars, player, mgrVars, itemVars, stateVars>>

\* a bullet pool after creation, with the shooter's lastFired and what the
\* last spawn or fire call did: the call (op; att flips at every call), the
\* instances it activated (fired), whether it threw
InitPools(name) == [pool |-> CreatePool(name), lastGet |-> "none",
                    fullBefore |-> FALSE, sizeBefore |-> 0,
                    lastFired |-> 0, op |-> "none", att |-> FALSE,
                    fired |-> 0, threw |-> FALSE]

PLAYER_FIRE_RATE == 150
SPRAY_BULLET_COUNT == 7
AIMED_BULLET_COUNT == 3
RING_BULLET_COUNT == 12

\* Bullet.fire / setActive(true) on the member Group.get handed out
activate(pool) == [pool EXCEPT !.active = @ + 1]

\* GameScene.shoot that stamps lastFired whether or not it got a bullet
shootStampsAlways(sh, time) ==
    IF time < sh.lastFired + PLAYER_FIRE_RATE
    THEN [sh EXCEPT !.fired = 0, !.threw = FALSE]
    ELSE LET r == GroupGet(sh.pool)
         IN IF r.got = "member"
            THEN [sh EXCEPT !.pool = activate(r.pool), !.lastFired = time,
                            !.fired = 1, !.threw = FALSE]
            ELSE [sh EXCEPT !.lastFired = time, !.fired = 0, !.threw = FALSE]

\* GameScene.shoot(time): the fire-rate check, bullets.get, and fire() and the
\* lastFired stamp only on a bullet
shoot(sh, time) ==
    IF time < sh.lastFired + PLAYER_FIRE_RATE
    THEN [sh EXCEPT !.fired = 0, !.threw = FALSE]
    ELSE LET r == GroupGet(sh.pool)
         IN IF r.got = "member"
            THEN [sh EXCEPT !.pool = activate(r.pool), !.lastFired = time,
                            !.fired = 1, !.threw = FALSE]
            ELSE [sh EXCEPT !.fired = 0, !.threw = FALSE]

\* Enemy.shoot(time) of an enemy that has its bullet group
enemyShoot(sh, time) ==
    LET r == GroupGet(sh.pool)
    IN IF r.got = "member"
       THEN [sh EXCEPT !.pool = activate(r.pool), !.lastFired = time,
                       !.fired = 1, !.threw = FALSE]
       ELSE [sh EXCEPT !.fired = 0, !.threw = FALSE]

\* the bullets an attack's onYoyo callback asks for
BulletCount(kind) ==
    CASE kind = "spray" -> SPRAY_BULLET_COUNT
      [] kind = "aimed" -> AIMED_BULLET_COUNT
      [] kind = "ring" -> RING_BULLET_COUNT

RECURSIVE volley(_, _)
\* the loop of an onYoyo callback: n times bulletGroup.get, activating every
\* bullet it gets and skipping the others
volley(pool, n) ==
    IF n = 0 THEN [pool |-> pool, fired |-> 0]
    ELSE LET r == GroupGet(pool)
             got == r.got = "member"
             rest == volley(IF got THEN activate(r.pool) ELSE r.pool, n - 1)
         IN [pool |-> rest.pool, fired |-> rest.fired + (IF got THEN 1 ELSE 0)]

\* the bullets of one boss attack
bossVolley(sh, kind) ==
    LET r == volley(sh.pool, BulletCount(kind))
    IN [sh EXCEPT !.pool = r.pool, !.fired = r.fired, !.threw = FALSE]

-----------------------------------------------------------------------------
(* GameState.js, Player damage, Enemy.js, Mine.js and the collision handlers *)

\* Mine instances explored
MaxMines == 2
\* Enemy instances explored
MaxEnemies == 1

START_LIVES == 3
MINE_HEALTH == 2
MINE_DAMAGE == 30
MINE_POINTS == 50
ENEMY_BULLET_DAMAGE == 10
BOSS_COLLISION_DAMAGE == 50

EnemyTypeKeys == {"fighter", "heavy"}

\* GameConfig.ENEMY.TYPES[type]: the fields the handlers read
EnemyTypes(type) ==
    CASE type = "fighter" ->
           [health |-> 1, speed |-> 150, points |-> 100, fireRate |-> 2000,
            damage |-> 10, credits |-> [min |-> 5, max |-> 15],
            dropTable |-> {"health", "weapon", "speed"}]
      [] type = "heavy" ->
           [health |-> 3, speed |-> 80, points |-> 250, fireRate |-> 1500,
            damage |-> 25, credits |-> [min |-> 15, max |-> 40],
            dropTable |-> {"health", "weapon", "shield"}]
      [] type = "scout" ->
           [health |-> 1, speed |-> 200, points |-> 150, fireRate |-> 3000,
            damage |-> 10, credits |-> [min |-> 10, max |-> 25],
            dropTable |-> {"speed", "health"}]
      [] type = "bomber" ->
           [health |-> 2, speed |-> 120, points |-> 200, fireRate |-> 2500,
            damage |-> 35, credits |-> [min |-> 20, max |-> 50],
            dropTable |-> {"weapon", "shield", "health"}]

\* Enemy.getTypeKeys(): every key of GameConfig.ENEMY.TYPES
getTypeKeys == {"fighter", "heavy", "scout", "bomber"}

\* GameState.reset; writes counts mutator calls by route
InitGs == [score |-> 0, lives |-> START_LIVES, enemiesKilled |-> 0,
           gameOver |-> FALSE, viaEvent |-> 0, direct |-> 0, mines |-> 0,
           enemies |-> 0]

\* GameState.addScore
addScore(g, points) == [g EXCEPT !.score = @ + points]
\* GameState.loseLife stopping at zero
gameStateLoseLifeFloored(g) ==
    LET lives == IF g.lives > 0 THEN g.lives - 1 ELSE 0
    IN [gs |-> [g EXCEPT !.lives = lives], returned |-> lives]

\* GameState.loseLife: `this.lives--; return this.lives;`, the GameState
\* afterwards and the value returned
gameStateLoseLife(g) ==
    LET lives == g.lives - 1
    IN [gs |-> [g EXCEPT !.lives = lives], returned |-> lives]

\* the GameState after GameState.loseLife
gsLoseLife(g) == gameStateLoseLife(g).gs
\* GameState.recordKill
recordKill(g) == [g EXCEPT !.enemiesKilled = @ + 1]

\* Player.takeDamage: the player afterwards; alive is the return value
playerTakeDamage(pl, amount) ==
    LET h == IF pl.health - amount < 0 THEN 0 ELSE pl.health - amount
    IN [player |-> [pl EXCEPT !.health = h], alive |-> h > 0]

\* Player.makeInvincible
makeInvincible(pl) ==
    [pl EXCEPT !.isInvincible = TRUE, !.flashTweens = @ + 1]
\* Player.respawn
respawn(pl) == makeInvincible([pl EXCEPT !.health = PLAYER_MAX_HEALTH])

\* GameScene.loseLife: GameState.loseLife, then game over or respawn
sceneLoseLife(g, pl) ==
    LET g2 == gsLoseLife(g)
    IN IF g2.lives <= 0
       THEN [gs |-> [g2 EXCEPT !.gameOver = TRUE], player |-> pl]
       ELSE [gs |-> g2, player |-> respawn(pl)]

\* the scene's subscriptions: 'addScore' -> GameState.addScore,
\* 'enemyKilled' -> GameState.recordKill, 'loseLife' -> GameScene.loseLife
OnAddScore(g, points) == [addScore(g, points) EXCEPT !.viaEvent = @ + 1]
OnEnemyKilled(g) == [recordKill(g) EXCEPT !.viaEvent = @ + 1]
OnLoseLife(g, pl) ==
    LET r == sceneLoseLife(g, pl)
    IN [gs |-> [r.gs EXCEPT !.viaEvent = @ + 1], player |-> r.player]

NoMine == [active |-> FALSE, health |-> 0, points |-> 0, damage |-> 0]
\* Mine constructor
NewMine == [active |-> TRUE, health |-> MINE_HEALTH, points |-> MINE_POINTS,
            damage |-> MINE_DAMAGE]

NoEnemy == [active |-> FALSE, type |-> "none", x |-> 0, health |-> 0,
            points |-> 0, speed |-> 0, fireRate |-> 0]

\* Enemy constructor that keeps an unknown type key and reads the heavy's stats
EnemyConstructorKeepsKey(x, type) ==
    LET config == IF type \in getTypeKeys THEN EnemyTypes(type)
                  ELSE EnemyTypes("heavy")
    IN [enemy |-> [active |-> TRUE, type |-> type, x |-> x,
                   health |-> config.health, points |-> config.points,
                   speed |-> config.speed, fireRate |-> config.fireRate],
        warned |-> type \notin getTypeKeys]

\* Enemy constructor: the instance and whether console.warn was called; an
\* unknown key (Enemy.getTypeConfig returns undefined) becomes 'fighter'
EnemyConstructor(x, type) ==
    LET known == type \in getTypeKeys
        t == IF known THEN type ELSE "fighter"
        config == IF known THEN EnemyTypes(type) ELSE EnemyTypes("fighter")
    IN [enemy |-> [active |-> TRUE, type |-> t, x |-> x,
                   health |-> config.health, points |-> config.points,
                   speed |-> config.speed, fireRate |-> config.fireRate],
        warned |-> ~known]

\* the instance the Enemy constructor builds
NewEnemy(x, type) == EnemyConstructor(x, type).enemy

SCREEN_WIDTH == 480
SPAWN_MARGIN == 60
SHIP_SPACING == 50
MIN_FIRE_RATE == 500
\* GameConfig.SPAWNER.FIGHTER_SPAWN_WEIGHT (0.7), in percent
FIGHTER_SPAWN_WEIGHT == 70

\* EnemySpawner.createEnemy that leaves the new enemy at its configured stats
createEnemyUnscaled(sp, x, type) == NewEnemy(x, type)

\* EnemySpawner.createEnemy(x, y, type, color): the new instance, its speed
\* multiplied and its fireRate divided by the spawner's difficultyMultiplier
\* (a percentage here; the fire rate in whole ms)
createEnemy(sp, x, type) ==
    LET e == NewEnemy(x, type)
    IN [e EXCEPT !.speed = (@ * sp.difficultyMultiplier) \div 100,
                 !.fireRate = Max(MIN_FIRE_RATE,
                                  (@ * 100) \div sp.difficultyMultiplier)]

FormationKeys == {"v", "line", "diamond", "arrow", "box", "swarm", "strike"}

\* GameConfig.FORMATIONS[key]: the x of every position in half units of the
\* ship spacing, the allowed types in order, minShips / maxShips (0 when the
\* formation has none)
Formations(key) ==
    CASE key = "v" ->
           [positions |-> <<0, -2, 2, -4, 4>>, minShips |-> 0, maxShips |-> 0,
            types |-> <<"fighter", "heavy", "scout">>]
      [] key = "line" ->
           [positions |-> <<-4, -2, 0, 2, 4>>, minShips |-> 3, maxShips |-> 5,
            types |-> <<"fighter", "heavy", "scout">>]
      [] key = "diamond" ->
           [positions |-> <<0, -2, 2, 0>>, minShips |-> 0, maxShips |-> 0,
            types |-> <<"fighter", "heavy">>]
      [] key = "arrow" ->
           [positions |-> <<0, -2, 2, -4, 4>>, minShips |-> 0, maxShips |-> 0,
            types |-> <<"fighter", "scout">>]
      [] key = "box" ->
           [positions |-> <<-2, 2, -2, 2>>, minShips |-> 0, maxShips |-> 0,
            types |-> <<"heavy", "bomber">>]
      [] key = "swarm" ->
           [positions |-> <<-6, -2, 2, 6>>, minShips |-> 0, maxShips |-> 0,
            types |-> <<"scout">>]
      [] key = "strike" ->
           [positions |-> <<0, -3, 3>>, minShips |-> 0, maxShips |-> 0,
            types |-> <<"bomber", "heavy">>]

\* Phaser.Math.RND.pick(array) for a random fraction of roll percent
pick(array, roll) == array[(roll * Len(array)) \div 100 + 1]

\* EnemySpawner.getRandomType(), Math.random() being roll percent
getRandomType(roll) == IF roll < FIGHTER_SPAWN_WEIGHT THEN "fighter" ELSE "heavy"

\* EnemySpawner.getRandomTypeFrom(allowedTypes)
getRandomTypeFrom(allowedTypes, roll) ==
    IF Len(allowedTypes) = 0 THEN getRandomType(roll)
    ELSE pick(allowedTypes, roll)

\* what a spawn call did: the formation key and centre, the random fraction
\* its type was drawn with, the type, the x of every slot used, the enemies
\* created in order, whether console.warn was called
NoSpawn == [op |-> "none", key |-> "none", centerX |-> 0, roll |-> 0,
            type |-> "none", slots |-> <<>>, created |-> <<>>, warned |-> FALSE]

\* spawnFormation creating an enemy for every slot, wherever it lies
spawnFormationEverySlot(sp, formationKey, centerX, roll, shipCount) ==
    LET config == Formations(formationKey)
        type == getRandomTypeFrom(config.types, roll)
        all == config.positions
        startIndex == (Len(all) - shipCount) \div 2
        positions == IF config.minShips > 0 /\ config.maxShips > 0
                     THEN SubSeq(all, startIndex + 1, startIndex + shipCount)
                     ELSE all
        xs == [i \in 1..Len(positions) |->
                  centerX + (positions[i] * SHIP_SPACING) \div 2]
    IN [op |-> "formation", key |-> formationKey, centerX |-> centerX,
        roll |-> roll, type |-> type, slots |-> xs,
        created |-> [i \in 1..Len(xs) |-> createEnemy(sp, xs[i], type)],
        warned |-> FALSE]

\* EnemySpawner.spawnFormation(formationKey, centerX) of a configured
\* formation: type drawn with roll, shipCount ships of a variable-length
\* formation, one createEnemy per slot inside the spawn margins
spawnFormation(sp, formationKey, centerX, roll, shipCount) ==
    LET config == Formations(formationKey)
        type == getRandomTypeFrom(config.types, roll)
        all == config.positions
        startIndex == (Len(all) - shipCount) \div 2
        positions == IF config.minShips > 0 /\ config.maxShips > 0
                     THEN SubSeq(all, startIndex + 1, startIndex + shipCount)
                     ELSE all
        xs == [i \in 1..Len(positions) |->
                  centerX + (positions[i] * SHIP_SPACING) \div 2]
        inside(x) == x > SPAWN_MARGIN /\ x < SCREEN_WIDTH - SPAWN_MARGIN
        kept == SelectSeq(xs, inside)
    IN [op |-> "formation", key |-> formationKey, centerX |-> centerX,
        roll |-> roll, type |-> type, slots |-> xs,
        created |-> [i \in 1..Len(kept) |-> createEnemy(sp, kept[i], type)],
        warned |-> FALSE]

\* the ship counts spawnFormation draws for a formation: Between(minShips,
\* maxShips) of a variable-length formation, none (0) otherwise
ShipCounts(key) ==
    IF Formations(key).minShips > 0 /\ Formations(key).maxShips > 0
    THEN Between(Formations(key).minShips, Formations(key).maxShips)
    ELSE {0}

\* EnemySpawner.spawnSingleEnemy(x, y, type, color)
spawnSingleEnemy(sp, x, type) ==
    [NoSpawn EXCEPT !.op = "single", !.centerX = x, !.type = type,
                    !.slots = <<x>>, !.created = <<createEnemy(sp, x, type)>>,
                    !.warned = EnemyConstructor(x, type).warned]

\* Enemy.getCollisionDamage
getCollisionDamage(e) == EnemyTypes(e.type).damage

\* what a collision callback did: the handler, the player's isInvincible flag
\* when it ran, whether Player.takeDamage was called (applied) and left the
\* health at zero (zeroed), the loseLife events emitted, whether lives were
\* changed by a direct call, whether the other entity was deactivated,
\* destroyed or exploded; for a player bullet on an enemy the kill, the
\* addScore / enemyKilled events and the coin spawned; for a GameState method
\* called on its own (call) the method, the loseLife calls since the last
\* reset and the value returned; for the passes of one tick over one enemy
\* or mine the overlapping pairs and the handler calls made
NoHit == [handler |-> "none", invincible |-> FALSE, applied |-> FALSE,
          zeroed |-> FALSE, loseLife |-> 0, livesDirect |-> FALSE,
          otherGone |-> FALSE, type |-> "none", killed |-> FALSE,
          addScore |-> 0, points |-> 0, enemyKilled |-> 0, coinFree |-> FALSE,
          coins |-> 0, coinValue |-> 0, bullet |-> [active |-> FALSE, dealt |-> 0],
          call |-> [op |-> "none", n |-> 0, returned |-> 0],
          pairs |-> 0, calls |-> 0]

\* Mine.explode without the destroy() at its end
explodeLeavesMine(m, g, pl, near) ==
    LET g2 == [addScore(g, m.points) EXCEPT !.direct = @ + 1]
        m2 == m
    IN IF pl.active /\ ~pl.isInvincible /\ near
       THEN LET d == playerTakeDamage(pl, m.damage)
            IN IF ~d.alive
               THEN LET r == sceneLoseLife(g2, d.player)
                    IN [mine |-> m2, gs |-> [r.gs EXCEPT !.direct = @ + 1],
                        player |-> r.player, applied |-> TRUE,
                        after |-> d.player.health, lifeLost |-> TRUE]
               ELSE [mine |-> m2, gs |-> g2, player |-> makeInvincible(d.player),
                     applied |-> TRUE, after |-> d.player.health,
                     lifeLost |-> FALSE]
       ELSE [mine |-> m2, gs |-> g2, player |-> pl, applied |-> FALSE,
             after |-> pl.health, lifeLost |-> FALSE]

\* Mine.explode: score added on the GameState object itself, the player
\* damaged when within the blast radius (near), the mine destroyed; applied,
\* after and lifeLost tell whether Player.takeDamage ran, the health it left
\* and whether scene.loseLife() was called
explode(m, g, pl, near) ==
    LET g2 == [addScore(g, m.points) EXCEPT !.direct = @ + 1]
        m2 == [m EXCEPT !.active = FALSE]
    IN IF pl.active /\ ~pl.isInvincible /\ near
       THEN LET d == playerTakeDamage(pl, m.damage)
            IN IF ~d.alive
               THEN LET r == sceneLoseLife(g2, d.player)
                    IN [mine |-> m2, gs |-> [r.gs EXCEPT !.direct = @ + 1],
                        player |-> r.player, applied |-> TRUE,
                        after |-> d.player.health, lifeLost |-> TRUE]
               ELSE [mine |-> m2, gs |-> g2, player |-> makeInvincible(d.player),
                     applied |-> TRUE, after |-> d.player.health,
                     lifeLost |-> FALSE]
       ELSE [mine |-> m2, gs |-> g2, player |-> pl, applied |-> FALSE,
             after |-> pl.health, lifeLost |-> FALSE]

\* Mine.takeDamage
mineTakeDamage(m, g, pl, amount, near) ==
    LET m2 == [m EXCEPT !.health = @ - amount]
    IN IF m2.health <= 0 THEN explode(m2, g, pl, near)
       ELSE [mine |-> m2, gs |-> g, player |-> pl, applied |-> FALSE,
             after |-> pl.health, lifeLost |-> FALSE]

\* Enemy.takeDamage
enemyTakeDamage(e, damage) ==
    LET e2 == [e EXCEPT !.health = @ - damage]
    IN IF e2.health <= 0
       THEN [enemy |-> [e2 EXCEPT !.active = FALSE], killed |-> TRUE]
       ELSE [enemy |-> e2, killed |-> FALSE]

\* GameScene.spawnMine: a new Mine joins the scene
SpawnMine ==
    /\ ~gs.gameOver /\ ~mine.active /\ gs.mines < MaxMines
    /\ mine' = NewMine
    /\ gs' = [gs EXCEPT !.mines = @ + 1]
    /\ UNCHANGED <<now, bossVars, player, mgrVars, itemVars, pools, enemy, hit, spawn, progress>>

\* EnemySpawner.createEnemy: a new Enemy of the given type
SpawnEnemy(type) ==
    /\ ~gs.gameOver /\ ~enemy.active /\ gs.enemies < MaxEnemies
    /\ enemy' = createEnemy(spawner, SCREEN_WIDTH \div 2, type)
    /\ gs' = [gs EXCEPT !.enemies = @ + 1]
    /\ UNCHANGED <<now, bossVars, player, mgrVars, itemVars, pools, mine, hit, spawn, progress>>

\* bulletHitEnemy scoring every hit, killing or not
bulletHitEnemyAnyHit(e, g, its, value, drop) ==
    LET r == enemyTakeDamage(e, 1)
    IN [enemy |-> r.enemy, gs |-> OnEnemyKilled(OnAddScore(g, e.points)),
        items |-> [its EXCEPT !.coin = spawnCoins(@, value),
                              !.pu = trySpawnPowerUp(@, drop)],
        killed |-> r.killed, addScore |-> 1, points |-> e.points,
        enemyKilled |-> 1,
        coins |-> IF FirstInactive(its.coin) # 0 THEN 1 ELSE 0]

\* CollisionManager.bulletHitEnemy with the scene's event handlers; value and
\* drop are the random draws of spawnCoins and trySpawnPowerUp.  addScore,
\* points and enemyKilled are the events emitted, coins the Coin.spawn calls
bulletHitEnemy(e, g, its, value, drop) ==
    LET r == enemyTakeDamage(e, 1)
    IN IF r.killed
       THEN [enemy |-> r.enemy, gs |-> OnEnemyKilled(OnAddScore(g, e.points)),
             items |-> [its EXCEPT !.coin = spawnCoins(@, value),
                                   !.pu = trySpawnPowerUp(@, drop)],
             killed |-> TRUE, addScore |-> 1, points |-> e.points,
             enemyKilled |-> 1,
             coins |-> IF FirstInactive(its.coin) # 0 THEN 1 ELSE 0]
       ELSE [enemy |-> r.enemy, gs |-> g, items |-> its, killed |-> FALSE,
             addScore |-> 0, points |-> 0, enemyKilled |-> 0, coins |-> 0]

\* a player bullet overlaps the enemy: bulletHitEnemy runs
BulletHitEnemy(value, drop) ==
    /\ ~gs.gameOver /\ enemy.active
    /\ LET cfg == EnemyTypes(enemy.type)
           r == bulletHitEnemy(enemy, gs, items, value, drop)
       IN /\ value \in Between(cfg.credits.min, cfg.credits.max)
          /\ drop \in cfg.dropTable \cup {"none"}
          /\ enemy' = r.enemy
          /\ gs' = r.gs
          /\ items' = r.items
          /\ hit' = [NoHit EXCEPT !.handler = "bulletEnemy",
                                  !.otherGone = r.killed,
                                  !.type = enemy.type,
                                  !.killed = r.killed,
                                  !.addScore = r.addScore,
                                  !.points = r.points,
                                  !.enemyKilled = r.enemyKilled,
                                  !.coinFree = FirstInactive(items.coin) # 0,
                                  !.coins = r.coins,
                                  !.coinValue = IF r.coins > 0 THEN value ELSE 0]
    /\ UNCHANGED <<now, bossVars, player, mgrVars, ledger, pools, mine, spawn, progress>>

\* CollisionManager.bulletHitMine
BulletHitMine(near) ==
    /\ ~gs.gameOver /\ mine.active
    /\ LET r == mineTakeDamage(mine, gs, player, 1, near)
       IN mine' = r.mine /\ gs' = r.gs /\ player' = r.player
    /\ UNCHANGED <<now, bossVars, mgrVars, itemVars, pools, enemy, hit, spawn, progress>>

\* the record of a player-damage callback
DamageHit(handler, pl, applied, after, loseLife, livesDirect, otherGone) ==
    [NoHit EXCEPT !.handler = handler, !.invincible = pl.isInvincible,
                  !.applied = applied, !.zeroed = applied /\ after = 0,
                  !.loseLife = loseLife, !.livesDirect = livesDirect,
                  !.otherGone = otherGone]

\* CollisionManager.mineHitPlayer: a direct contact is within the blast radius
mineHitPlayer(m, g, pl) ==
    IF pl.isInvincible
    THEN [mine |-> m, gs |-> g, player |-> pl, applied |-> FALSE,
          after |-> pl.health, lifeLost |-> FALSE]
    ELSE explode(m, g, pl, TRUE)

\* the mine overlaps the player: mineHitPlayer runs
MineHitPlayer ==
    /\ ~gs.gameOver /\ mine.active
    /\ LET r == mineHitPlayer(mine, gs, player)
       IN /\ mine' = r.mine /\ gs' = r.gs /\ player' = r.player
          /\ hit' = DamageHit("mine", player, r.applied, r.after, 0,
                              r.lifeLost, ~r.mine.active)
    /\ UNCHANGED <<now, bossVars, mgrVars, itemVars, pools, enemy, spawn, progress>>

\* Mine.preUpdate: explodes within the proximity radius, destroyed off screen
MinePreUpdate(inProximity, offScreen) ==
    /\ ~gs.gameOver /\ mine.active
    /\ IF player.active /\ inProximity
       THEN LET r == explode(mine, gs, player, TRUE)
            IN mine' = r.mine /\ gs' = r.gs /\ player' = r.player
       ELSE /\ mine' = IF offScreen THEN [mine EXCEPT !.active = FALSE] ELSE mine
            /\ UNCHANGED <<gs, player, progress>>
    /\ UNCHANGED <<now, bossVars, mgrVars, itemVars, pools, enemy, hit, spawn, progress>>

\* enemyBulletHitPlayer without the invincibility test
enemyBulletHitPlayerNoGate(g, pl) ==
    LET d == playerTakeDamage(pl, ENEMY_BULLET_DAMAGE)
    IN IF ~d.alive
       THEN LET r == OnLoseLife(g, d.player)
            IN [gs |-> r.gs, player |-> r.player, bulletGone |-> TRUE,
                applied |-> TRUE, after |-> d.player.health, loseLife |-> 1]
       ELSE [gs |-> g, player |-> d.player, bulletGone |-> TRUE,
             applied |-> TRUE, after |-> d.player.health, loseLife |-> 0]

\* CollisionManager.enemyBulletHitPlayer with the scene's 'loseLife' handler
enemyBulletHitPlayer(g, pl) ==
    IF pl.isInvincible
    THEN [gs |-> g, player |-> pl, bulletGone |-> FALSE, applied |-> FALSE,
          after |-> pl.health, loseLife |-> 0]
    ELSE LET d == playerTakeDamage(pl, ENEMY_BULLET_DAMAGE)
         IN IF ~d.alive
            THEN LET r == OnLoseLife(g, d.player)
                 IN [gs |-> r.gs, player |-> r.player, bulletGone |-> TRUE,
                     applied |-> TRUE, after |-> d.player.health,
                     loseLife |-> 1]
            ELSE [gs |-> g, player |-> d.player, bulletGone |-> TRUE,
                  applied |-> TRUE, after |-> d.player.health, loseLife |-> 0]

\* an enemy bullet overlaps the player: enemyBulletHitPlayer runs
EnemyBulletHitPlayer ==
    /\ ~gs.gameOver
    /\ LET r == enemyBulletHitPlayer(gs, player)
       IN /\ gs' = r.gs /\ player' = r.player
          /\ hit' = DamageHit("enemyBullet", player, r.applied, r.after,
                              r.loseLife, FALSE, r.bulletGone)
    /\ UNCHANGED <<now, bossVars, mgrVars, itemVars, pools, mine, enemy, spawn, progress>>

\* CollisionManager.enemyHitPlayer with the scene's 'loseLife' handler: the
\* enemy is destroyed, the player takes the enemy's collision damage
enemyHitPlayer(e, g, pl) ==
    IF pl.isInvincible
    THEN [enemy |-> e, gs |-> g, player |-> pl, applied |-> FALSE,
          after |-> pl.health, loseLife |-> 0]
    ELSE LET damage == getCollisionDamage(e)
             e2 == [e EXCEPT !.active = FALSE]
             d == playerTakeDamage(pl, damage)
         IN IF ~d.alive
            THEN LET r == OnLoseLife(g, d.player)
                 IN [enemy |-> e2, gs |-> r.gs, player |-> r.player,
                     applied |-> TRUE, after |-> d.player.health,
                     loseLife |-> 1]
            ELSE [enemy |-> e2, gs |-> g, player |-> d.player,
                  applied |-> TRUE, after |-> d.player.health, loseLife |-> 0]

\* the enemy overlaps the player: enemyHitPlayer runs
EnemyHitPlayer ==
    /\ ~gs.gameOver /\ enemy.active
    /\ LET r == enemyHitPlayer(enemy, gs, player)
       IN /\ enemy' = r.enemy /\ gs' = r.gs /\ player' = r.player
          /\ hit' = DamageHit("enemyBody", player, r.applied, r.after,
                              r.loseLife, FALSE, ~r.enemy.active)
    /\ UNCHANGED <<now, bossVars, mgrVars, itemVars, pools, mine, spawn, progress>>

\* bossHitPlayer that grants no invincibility to a surviving player
bossHitPlayerNoGrace(b, g, pl) ==
    IF pl.isInvincible \/ b.isDying
    THEN [gs |-> g, player |-> pl, applied |-> FALSE, after |-> pl.health,
          loseLife |-> 0]
    ELSE LET d == playerTakeDamage(pl, BOSS_COLLISION_DAMAGE)
         IN IF ~d.alive
            THEN LET r == OnLoseLife(g, d.player)
                 IN [gs |-> r.gs, player |-> r.player, applied |-> TRUE,
                     after |-> d.player.health, loseLife |-> 1]
            ELSE [gs |-> g, player |-> d.player,
                  applied |-> TRUE, after |-> d.player.health, loseLife |-> 0]

\* CollisionManager.bossHitPlayer with the scene's 'loseLife' handler: nothing
\* for an invincible player or a dying boss, else the boss's collision damage
\* and, for a surviving player, a spell of invincibility
bossHitPlayer(b, g, pl) ==
    IF pl.isInvincible \/ b.isDying
    THEN [gs |-> g, player |-> pl, applied |-> FALSE, after |-> pl.health,
          loseLife |-> 0]
    ELSE LET d == playerTakeDamage(pl, BOSS_COLLISION_DAMAGE)
         IN IF ~d.alive
            THEN LET r == OnLoseLife(g, d.player)
                 IN [gs |-> r.gs, player |-> r.player, applied |-> TRUE,
                     after |-> d.player.health, loseLife |-> 1]
            ELSE [gs |-> g, player |-> makeInvincible(d.player),
                  applied |-> TRUE, after |-> d.player.health, loseLife |-> 0]

\* the boss's body overlaps the player: bossHitPlayer runs
BossHitPlayer ==
    /\ ~gs.gameOver /\ boss.active
    /\ LET r == bossHitPlayer(boss, gs, player)
       IN /\ gs' = r.gs /\ player' = r.player
          /\ hit' = DamageHit("bossBody", player, r.applied, r.after,
                              r.loseLife, FALSE, ~boss.active)
    /\ UNCHANGED <<now, bossVars, mgrVars, itemVars, pools, mine, enemy, spawn, progress>>

\* onComplete of the flashing tween of Player.makeInvincible
InvincibilityEnd ==
    /\ player.flashTweens > 0
    /\ player' = [player EXCEPT !.isInvincible = FALSE, !.flashTweens = @ - 1]
    /\ UNCHANGED <<now, bossVars, mgrVars, itemVars, pools, stateVars>>

-----------------------------------------------------------------------------
(* Boss defeat, the dev console and the frames of a whole session *)

\* the scene's 'awardLife' subscription
OnAwardLife(g) == [g EXCEPT !.lives = @ + 1, !.viaEvent = @ + 1]

REWARD_EXTRA_LIFE == TRUE
REWARD_POWER_UP == TRUE

\* onBossDefeated awarding the life twice
onBossDefeatedTwoLives(m, g, b) ==
    [mgr |-> [advanceBossType([m EXCEPT !.bossesDefeated = @ + 1])
                EXCEPT !.isBossFight = FALSE, !.hasBoss = FALSE],
     gs |-> OnAwardLife(OnAwardLife(OnAddScore(g, b.points))),
     events |-> [addScore |-> 1, points |-> b.points, awardLife |-> 2,
                 spawnPowerUp |-> 1]]

\* BossManager.onBossDefeated(boss) with the scene's handlers of addScore and
\* awardLife: the manager and the GameState after it and the events emitted
\* (addScore with its points, awardLife, spawnPowerUp); the resume callback it
\* schedules is recorded by the caller
onBossDefeated(m, g, b) ==
    [mgr |-> [advanceBossType([m EXCEPT !.bossesDefeated = @ + 1])
                EXCEPT !.isBossFight = FALSE, !.hasBoss = FALSE],
     gs |-> IF REWARD_EXTRA_LIFE THEN OnAwardLife(OnAddScore(g, b.points))
            ELSE OnAddScore(g, b.points),
     events |-> [addScore |-> 1, points |-> b.points,
                 awardLife |-> IF REWARD_EXTRA_LIFE THEN 1 ELSE 0,
                 spawnPowerUp |-> IF REWARD_POWER_UP THEN 1 ELSE 0]]

\* onComplete of the death tween of Boss.die: emits bossDefeated, which
\* BossManager.onBossDefeated handles synchronously, then destroys the boss;
\* on an already destroyed boss the callback throws before it emits
DeathTweenComplete ==
    /\ deathTweens > 0
    /\ deathTweens' = deathTweens - 1
    /\ IF boss.active
       THEN LET r == onBossDefeated(mgr, gs, boss)
            IN /\ stats' = [stats EXCEPT
                              !.defeated = @ + 1,
                              !.addScoreEvents = @ + r.events.addScore,
                              !.scorePoints = r.events.points,
                              !.awardLifeEvents = @ + r.events.awardLife,
                              !.powerUpRequests = @ + r.events.spawnPowerUp]
               /\ boss' = [boss EXCEPT !.active = FALSE]
               /\ mgr' = r.mgr
               /\ gs' = r.gs
               /\ timers' = timers \cup {RESUME_DELAY}
       ELSE UNCHANGED <<stats, boss, mgr, gs, timers, progress>>
    /\ UNCHANGED <<now, tween, tick, player, spawner, itemVars, pools, mine, enemy,
                   hit, dm, upd, spawn, progress>>

\* DevConsole.spawnBoss (key B)
DevSpawnBoss ==
    /\ ~isBossActive(mgr, boss)
    /\ mgr.bossesDefeated < MaxBosses
    /\ LET r == spawnBoss(mgr, spawner)
       IN /\ mgr' = r.mgr
          /\ boss' = r.boss
          /\ spawner' = r.spawner
    /\ stats' = InitStats
    /\ tick' = NoTick
    /\ tween' = NoTween
    /\ UNCHANGED <<now, deathTweens, player, timers, itemVars, pools, stateVars,
                   dm, upd>>

\* one frame of the running scene: the clock's due delayed calls, the boss's
\* preUpdate, then GameScene.update calling EnemySpawner.update and
\* BossManager.update
EncounterFrame(delta, next) ==
    /\ now + delta <= MaxEncounterTime
    /\ LET sp0 == IF ResumeDue(timers, delta) THEN resume(spawner) ELSE spawner
           p == IF boss.active THEN preUpdate(boss, now + delta, delta, player)
                ELSE [boss |-> boss, tick |-> NoTick]
           sp1 == spawnerUpdate(sp0, delta, next)
           r == mgrUpdate(mgr, sp1, p.boss, delta)
       IN /\ r.spawned => mgr.bossesDefeated < MaxBosses
          /\ next \in Between(sp0.minSpawnInterval, sp0.maxSpawnInterval)
          /\ mgr' = r.mgr
          /\ upd' = UpdateOf(mgr, delta, r)
          /\ spawn' = IF sp1.spawnedFormation
                      THEN spawnFormation(sp0, "v", SCREEN_WIDTH \div 2, 0, 0)
                      ELSE spawn
          /\ spawner' = r.spawner
          /\ boss' = r.boss
          /\ tick' = IF r.spawned THEN NoTick ELSE p.tick
          /\ stats' = IF r.spawned THEN InitStats ELSE stats
          /\ tween' = IF r.spawned THEN NoTween
                      ELSE IF p.tick.tween # "none"
                      THEN [kind |-> p.tick.tween, stage |-> "windup", fired |-> FALSE]
                      ELSE tween
    /\ timers' = Elapse(timers, delta)
    /\ now' = now + delta
    /\ UNCHANGED <<deathTweens, player, itemVars, pools, gs, mine, enemy, hit,
                   dm, progress>>

-----------------------------------------------------------------------------
(* Specifications *)

\* the state after the scene's create(): no boss yet, spawner running
Init ==
    /\ now = 0
    /\ boss = NoBoss
    /\ tween = NoTween
    /\ deathTweens = 0
    /\ stats = InitStats
    /\ tick = NoTick
    /\ player = InitPlayer
    /\ mgr = InitMgr
    /\ spawner = InitSpawner
    /\ timers = {}
    /\ items = InitItems
    /\ ledger = InitLedger
    /\ pools = InitPools("bullets")
    /\ gs = InitGs
    /\ mine = NoMine
    /\ enemy = NoEnemy
    /\ hit = NoHit
    /\ spawn = NoSpawn
    /\ progress = NewProgressManager
    /\ dm = NewDifficultyManager
    /\ upd = NoUpdate

\* one boss encounter: the state right after BossManager.spawnBoss created
\* the boss of any position of the spawn order
InitBoss ==
    \E i \in 0..(Len(SPAWN_ORDER) - 1) :
        LET r == spawnBoss([InitMgr EXCEPT !.currentBossIndex = i,
                                           !.bossesDefeated = i,
                                           !.created = i], InitSpawner)
        IN /\ now = 0
           /\ boss = r.boss
           /\ mgr = r.mgr
           /\ spawner = r.spawner
           /\ tween = NoTween
           /\ deathTweens = 0
           /\ stats = InitStats
           /\ tick = NoTick
           /\ player = InitPlayer
           /\ timers = {}
           /\ items = InitItems
           /\ ledger = InitLedger
           /\ pools = InitPools("bullets")
           /\ gs = InitGs
           /\ mine = NoMine
           /\ enemy = NoEnemy
           /\ hit = NoHit
           /\ spawn = NoSpawn
           /\ progress = NewProgressManager
           /\ dm = NewDifficultyManager
           /\ upd = NoUpdate

NextBoss ==
    \/ \E delta \in Deltas : BossTick(delta)
    \/ \E amount \in Amounts : BossHit(amount)
    \/ AttackTweenYoyo
    \/ AttackTweenComplete
    \/ DeathTweenComplete

SpecBoss == InitBoss /\ [][NextBoss]_vars

-----------------------------------------------------------------------------
(* Properties of one boss encounter (SpecBoss) *)

\* C1: for any sequence of takeDamage calls on one boss, the death sequence
\* is started exactly once, namely when health first reaches 0 or below, and
\* bossDefeated is emitted exactly once: die() has run once if and only if
\* the boss is dying, every started death sequence is either still running or
\* has emitted its one bossDefeated, and a boss at or below 0 health is dying.
C1_DeathSequenceOnce ==
    /\ stats.dieCount = (IF boss.isDying THEN 1 ELSE 0)
    /\ deathTweens + stats.defeated = stats.dieCount
    /\ stats.defeated <= 1
    /\ (boss.health <= 0 <=> boss.isDying)
    /\ (~boss.active => stats.defeated = 1)

\* a boss killed by its first hit, hit again while dying, then destroyed
C1_Witness ==
    /\ stats.hits >= 3
    /\ boss.health = boss.maxHealth - 9999
    /\ stats.defeated = 1
    /\ ~boss.active

\* C2: over one encounter the boss's current phase never decreases across
\* takeDamage calls, even when health is restored by a negative amount.
C2_PhaseNeverDecreases ==
    [][boss'.currentPhase >= boss.currentPhase]_vars

\* C8: the boss's health always lies in 0..maxHealth.
C8_HealthInRange ==
    boss.health >= 0 /\ boss.health <= boss.maxHealth

\* C9: takeDamage on a boss whose isDying flag is set is a no-op: no field of
\* the boss changes (health, phase, isDying included), no death sequence is
\* started, and the call returns that the boss did not die.
C9_DyingBossIgnoresDamage ==
    [][(boss.isDying /\ stats'.hits = stats.hits + 1)
        => /\ boss' = boss
           /\ deathTweens' = deathTweens
           /\ stats'.dieCount = stats.dieCount
           /\ ~stats'.lastDied]_vars

\* the last takeDamage call was made on an already dying boss
C9_Witness ==
    /\ boss.active /\ boss.isDying
    /\ stats.hits >= 2
    /\ ~stats.lastDied

\* C10: a boss of maxHealth 300 is in phase 2 at health 195 and in phase 3 at
\* health 90, and whenever its health is in the phase-3 band the attack list
\* consulted by hasAttack is the phase-3 list; a tick never selects an attack
\* that the list of the phase given by the health at that tick lacks.
C10_PhaseThresholds ==
    /\ (boss.maxHealth = 300 /\ boss.health = 195 => boss.currentPhase = 2)
    /\ (boss.maxHealth = 300 /\ boss.health = 90 => boss.currentPhase = 3)
    /\ (boss.maxHealth = 300 /\ boss.health > 0 /\ boss.health <= 99
          => \A a \in {"spray", "aimed", "summon", "ring"} :
                hasAttack(boss, a) <=> a \in boss.phase3Attacks)
    /\ (tick.evaluated /\ tick.before.maxHealth = 300 /\ tick.selected # "none"
          => tick.selected \in (IF tick.before.health <= 99
                                THEN tick.before.phase3Attacks
                                ELSE tick.before.attacks))

\* the megaship at health 90 fired the ring attack, which only its phase-3
\* list has
C10_Witness ==
    /\ boss.maxHealth = 300 /\ boss.health = 90
    /\ tick.evaluated /\ tick.before.health = 90
    /\ tick.selected = "ring"

\* the attacks in the order updateAttacks tries them
AttackOrder == <<"spray", "aimed", "summon", "ring">>

\* cooldown and last-fired time of an attack of boss b
CooldownOf(b, a) ==
    CASE a = "spray" -> b.sprayCooldown
      [] a = "aimed" -> b.aimedCooldown
      [] a = "summon" -> b.summonCooldown
      [] a = "ring" -> b.ringCooldown

LastTimeOf(b, a) ==
    CASE a = "spray" -> b.lastSprayTime
      [] a = "aimed" -> b.lastAimedTime
      [] a = "summon" -> b.lastSummonTime
      [] a = "ring" -> b.lastRingTime

\* attack a may fire at `time`: it is in the list of the current phase, summon
\* only from phase 2, and its cooldown (halved in phase 3) has elapsed
Eligible(b, a, time) ==
    /\ a \in (IF b.currentPhase = 3 THEN b.phase3Attacks ELSE b.attacks)
    /\ (a = "summon" => b.currentPhase \in {2, 3})
    /\ (IF b.currentPhase = 3
        THEN 2 * (time - LastTimeOf(b, a)) >= CooldownOf(b, a)
        ELSE time - LastTimeOf(b, a) >= CooldownOf(b, a))

\* C4: on each tick in which a patrolling boss evaluates attacks, exactly the
\* first eligible attack of the order spray, aimed, summon, ring fires, and
\* no other attack's last-fired timestamp changes; with no eligible attack
\* nothing fires and nothing changes.
C4_FirstEligibleAttackFires ==
    tick.evaluated =>
        /\ \A i \in 1..4 :
              (tick.selected = AttackOrder[i]) <=>
                  /\ Eligible(tick.before, AttackOrder[i], tick.time)
                  /\ \A j \in 1..(i - 1) :
                        ~Eligible(tick.before, AttackOrder[j], tick.time)
        /\ \A a \in {"spray", "aimed", "summon", "ring"} :
              LastTimeOf(boss, a) = IF a = tick.selected
                                    THEN tick.time
                                    ELSE LastTimeOf(tick.before, a)
        /\ (tick.selected \in {"spray", "aimed", "ring"} <=> tick.tween # "none")
        /\ (tick.selected = "summon" <=> tick.summon # NoSummon)
        /\ (tick.tween # "none" => tick.tween = tick.selected)

\* a tick skipped an attack on cooldown or outside the list and fired a later
\* attack of the order
C4_Witness ==
    /\ tick.evaluated
    /\ tick.selected = "summon"
    /\ hasAttack(tick.before, "aimed")
    /\ boss.lastSummonTime = tick.time
    /\ boss.lastAimedTime < tick.time

-----------------------------------------------------------------------------
(* A whole session of the boss manager and the spawner (SpecEncounter) *)

\* takeDamage amounts of a session: a bullet and the dev console's kill
EncounterAmounts == {1, 9999}

NextEncounter ==
    \/ \E delta \in EncounterDeltas :
          \E next \in Between(MIN_SPAWN_INTERVAL, MAX_SPAWN_INTERVAL) :
             EncounterFrame(delta, next)
    \/ DevSpawnBoss
    \/ \E amount \in EncounterAmounts : BossHit(amount)
    \/ AttackTweenYoyo
    \/ AttackTweenComplete
    \/ DeathTweenComplete

\* a session SessionStart ms after create(): no boss was spawned yet, the
\* manager's timer has run since the start, the spawner has just spawned a
\* formation and drawn its next interval
InitEncounter ==
    /\ now = SessionStart
    /\ boss = NoBoss
    /\ tween = NoTween
    /\ deathTweens = 0
    /\ stats = InitStats
    /\ tick = NoTick
    /\ player = InitPlayer
    /\ mgr = [InitMgr EXCEPT !.spawnTimer = SessionStart]
    /\ \E next \in Between(MIN_SPAWN_INTERVAL, MAX_SPAWN_INTERVAL) :
          spawner = [InitSpawner EXCEPT !.spawnInterval = next]
    /\ timers = {}
    /\ items = InitItems
    /\ ledger = InitLedger
    /\ pools = InitPools("bullets")
    /\ gs = InitGs
    /\ mine = NoMine
    /\ enemy = NoEnemy
    /\ hit = NoHit
    /\ spawn = NoSpawn
    /\ progress = NewProgressManager
    /\ dm = NewDifficultyManager
    /\ upd = NoUpdate

SpecEncounter == InitEncounter /\ [][NextEncounter]_vars

\* the Boss instances constructed and not yet destroyed: each defeat is
\* followed by the destruction of the defeated instance
LiveBosses == mgr.created - mgr.bossesDefeated

\* C34: at any time at most one boss instance exists: BossManager constructs
\* a new Boss, on its timer or on a forced spawn, only when the one before it
\* has been destroyed, never while it is alive or in its death sequence.
C34_AtMostOneBoss ==
    /\ [](LiveBosses \in {0, 1})
    /\ [](LiveBosses = 1 <=> boss.active)
    /\ [][mgr'.created # mgr.created
            => /\ mgr'.created = mgr.created + 1
               /\ ~boss.active
               /\ deathTweens = 0
               /\ boss'.active /\ ~boss'.isDying]_vars

\* a second boss was constructed after the first was destroyed
C34_Witness ==
    /\ mgr.created = 2 /\ mgr.bossesDefeated = 1
    /\ boss.active /\ boss.type = "destroyer"

\* C3: from the spawn of a boss until the grace delay after its defeat has
\* elapsed the spawner is paused; in particular it is never un-paused while a
\* boss encounter is active.
C3_SpawnerPausedDuringEncounter ==
    mgr.isBossFight => spawner.isPaused

\* the session with the render loop running: a frame that can be taken is
\* eventually taken; the boss is hit by the dev console's kill only
NextEncounterLive ==
    \/ \E delta \in EncounterDeltas :
          \E next \in Between(MIN_SPAWN_INTERVAL, MAX_SPAWN_INTERVAL) :
             EncounterFrame(delta, next)
    \/ DevSpawnBoss
    \/ BossHit(9999)
    \/ DeathTweenComplete

SpecEncounterLive ==
    /\ InitEncounter
    /\ [][NextEncounterLive]_vars
    /\ WF_vars(\E delta \in EncounterDeltas :
                 \E next \in Between(MIN_SPAWN_INTERVAL, MAX_SPAWN_INTERVAL) :
                    EncounterFrame(delta, next))

\* the spawner is paused with no boss encounter active
PausedOutsideEncounter == spawner.isPaused /\ ~mgr.isBossFight

-----------------------------------------------------------------------------
(* The attack cycle of a patrolling boss (SpecAttackCycle): frames without  *)
(* end. Boss.updateAttacks reads the clock only through the differences     *)
(* time - last...Time, so the clock is kept at SessionStart and each frame  *)
(* moves the stored timestamps back by delta instead; a timestamp that      *)
(* reaches 0 stays there (older than every cooldown).                       *)

\* `duration` of the wind-up tweens of SprayAttack, AimedAttack, RingAttack
\* (yoyo: the tween runs forward and back, twice the duration in all)
SPRAY_WINDUP == 150
AIMED_WINDUP == 100
RING_WINDUP == 300

WindUpOf(kind) ==
    CASE kind = "spray" -> SPRAY_WINDUP
      [] kind = "aimed" -> AIMED_WINDUP
      [] kind = "ring" -> RING_WINDUP
      [] OTHER -> 0

\* frame length of the attack cycle, ms (10 frames a second)
CycleDeltas == {100}
\* takeDamage amounts of the attack cycle: a burst that crosses the phases
CycleAmounts == {105}

\* the timestamps of boss b as seen delta ms later
Later(b, delta) ==
    [b EXCEPT !.lastSprayTime = Max(@ - delta, 0),
              !.lastAimedTime = Max(@ - delta, 0),
              !.lastSummonTime = Max(@ - delta, 0),
              !.lastRingTime = Max(@ - delta, 0)]

\* a wind-up tween whose onComplete never runs
windUpTweenNoComplete(b, tw, elapsed, pl) ==
    IF tw.stage = "windup" /\ elapsed >= WindUpOf(tw.kind)
    THEN [boss |-> b,
          tween |-> [tw EXCEPT !.stage = "recover",
                               !.fired = yoyoFires(b, tw.kind, pl)]]
    ELSE [boss |-> b, tween |-> tw]

\* one update of the wind-up tween tw, `elapsed` ms after the attack started
\* it: onYoyo when the forward run is over, onComplete (isAttacking = false)
\* when the run back is over
windUpTween(b, tw, elapsed, pl) ==
    IF tw.stage = "windup" /\ elapsed >= WindUpOf(tw.kind)
    THEN [boss |-> b,
          tween |-> [tw EXCEPT !.stage = "recover",
                               !.fired = yoyoFires(b, tw.kind, pl)]]
    ELSE IF tw.stage = "recover" /\ elapsed >= 2 * WindUpOf(tw.kind)
    THEN [boss |-> [b EXCEPT !.isAttacking = FALSE], tween |-> NoTween]
    ELSE [boss |-> b, tween |-> tw]

\* a frame of delta ms: the running wind-up tween is updated, then Phaser
\* calls Boss.preUpdate
AttackFrame(delta) ==
    /\ boss.active /\ ~boss.isDying
    /\ LET b0 == Later(boss, delta)
           elapsed == IF tween.kind = "none" THEN 0
                      ELSE now - LastTimeOf(b0, tween.kind)
           w == windUpTween(b0, tween, elapsed, player)
           r == preUpdate(w.boss, now, delta, player)
       IN /\ boss' = r.boss
          /\ tick' = r.tick
          /\ tween' = IF r.tick.tween # "none"
                      THEN [kind |-> r.tick.tween, stage |-> "windup", fired |-> FALSE]
                      ELSE w.tween
    /\ UNCHANGED <<now, deathTweens, stats, player, mgrVars, itemVars, pools, stateVars>>

\* a takeDamage call the boss survives (CollisionManager.bulletHitBoss)
PatrolHit(amount) ==
    /\ boss.active /\ ~boss.isDying
    /\ boss.health - amount > 0
    /\ boss' = takeDamage(boss, amount).boss
    /\ UNCHANGED <<now, tween, deathTweens, stats, tick, player, mgrVars, itemVars,
                   pools, stateVars>>

\* the encounter starts at SessionStart
InitAttackCycle ==
    \E i \in 0..(Len(SPAWN_ORDER) - 1) :
        LET r == spawnBoss([InitMgr EXCEPT !.currentBossIndex = i,
                                           !.bossesDefeated = i,
                                           !.created = i], InitSpawner)
        IN /\ now = SessionStart
           /\ boss = r.boss
           /\ mgr = r.mgr
           /\ spawner = r.spawner
           /\ tween = NoTween
           /\ deathTweens = 0
           /\ stats = InitStats
           /\ tick = NoTick
           /\ player = InitPlayer
           /\ timers = {}
           /\ items = InitItems
           /\ ledger = InitLedger
           /\ pools = InitPools("bullets")
           /\ gs = InitGs
           /\ mine = NoMine
           /\ enemy = NoEnemy
           /\ hit = NoHit
           /\ spawn = NoSpawn
           /\ progress = NewProgressManager
           /\ dm = NewDifficultyManager
           /\ upd = NoUpdate

NextAttackCycle ==
    \/ \E delta \in CycleDeltas : AttackFrame(delta)
    \/ \E amount \in CycleAmounts : PatrolHit(amount)

\* frames keep coming (the render loop)
SpecAttackCycle ==
    /\ InitAttackCycle
    /\ [][NextAttackCycle]_vars
    /\ WF_vars(\E delta \in CycleDeltas : AttackFrame(delta))

\* the attack list of the boss's stored phase
CurrentAttacks == IF boss.currentPhase = 3 THEN boss.phase3Attacks ELSE boss.attacks

\* the boss is on patrol with its bullet group set and the player active
Patrolling ==
    /\ boss.active /\ ~boss.isEntering /\ ~boss.isDying
    /\ boss.bulletGroup /\ player.active

AttackNames == {"spray", "aimed", "summon", "ring"}

\* attack a has fired less than its cooldown (halved in phase 3) ago
CoolingDown(a) ==
    IF boss.currentPhase = 3
    THEN 2 * (now - LastTimeOf(boss, a)) < CooldownOf(boss, a)
    ELSE now - LastTimeOf(boss, a) < CooldownOf(boss, a)

C40_SummonCarriesTypeConfig ==
    tick.selected = "summon"
        => /\ BossTypes(boss.type).summonCount # 0
                => tick.summon.count = BossTypes(boss.type).summonCount
           /\ tick.summon.type \in BossTypes(boss.type).summonTypes

-----------------------------------------------------------------------------
(* Collecting power-ups and coins (SpecCollect) *)

\* player health values a session starts the exploration with
StartHealths == {40, 100}

InitCollect ==
    /\ now = 0
    /\ boss = NoBoss
    /\ tween = NoTween
    /\ deathTweens = 0
    /\ stats = InitStats
    /\ tick = NoTick
    /\ \E h \in StartHealths : player = [InitPlayer EXCEPT !.health = h]
    /\ mgr = InitMgr
    /\ spawner = InitSpawner
    /\ timers = {}
    /\ items = InitItems
    /\ ledger = InitLedger
    /\ pools = InitPools("bullets")
    /\ gs = InitGs
    /\ mine = NoMine
    /\ enemy = NoEnemy
    /\ hit = NoHit
    /\ spawn = NoSpawn
    /\ progress = NewProgressManager
    /\ dm = NewDifficultyManager
    /\ upd = NoUpdate

NextCollect ==
    \/ \E type \in CollectTypeKeys : SpawnPowerUp(type)
    \/ \E value \in CoinValues : SpawnCoin(value)
    \/ \E i \in Slots : PowerUpHitPlayer(i)
    \/ \E i \in Slots : CoinHitPlayer(i)
    \/ \E kind \in {"pu", "coin"} : \E i \in Slots : CollectTweenComplete(kind, i)
    \/ \E kind \in {"pu", "coin"} : \E i \in Slots : ItemOffScreen(kind, i)

SpecCollect == InitCollect /\ [][NextCollect]_vars

\* the player effects and addCredits events counted by the ledger
EffectsApplied ==
    ledger.heals + ledger.weaponUps + ledger.speedBoosts + ledger.shields
        + ledger.weaponSwitches

\* C5: however many times collect(player) is called on one spawned power-up
\* or coin, its effect is applied exactly once: no instance applies more than
\* one effect per spawn, an instance collected while in play has applied
\* exactly one, a coin has sent exactly one addCredits carrying its value,
\* and over the session there are never more effects or addCredits events
\* than spawns.
C5_CollectOnce ==
    /\ \A i \in Slots :
          /\ items.pu[i].applied <= 1
          /\ (items.pu[i].calls >= 1 /\ ~items.pu[i].lapsed => items.pu[i].applied = 1)
          /\ items.coin[i].applied <= 1
          /\ (items.coin[i].calls >= 1 /\ ~items.coin[i].lapsed
                => items.coin[i].applied = 1)
          /\ items.coin[i].credited = items.coin[i].applied * items.coin[i].value
    /\ EffectsApplied + ledger.creditEvents <= ledger.spawns

\* C36: a power-up or coin slot that is spawned again from the pool stays
\* active until it is itself collected, expires or leaves the screen: a
\* deactivate callback scheduled during the slot's previous use never
\* deactivates the newly spawned instance.
C36_RespawnedSlotStaysActive ==
    \A kind \in {"pu", "coin"} : \A i \in Slots : ~items[kind][i].stale

\* a power-up and a coin were each collected twice in one spawn and each
\* applied its effect once
C5_Witness ==
    \E i, j \in Slots :
        /\ items.pu[i].calls >= 2 /\ items.pu[i].applied = 1
        /\ items.coin[j].calls >= 2 /\ items.coin[j].credited = items.coin[j].value
        /\ items.coin[j].value > 0
        /\ EffectsApplied = 1 /\ ledger.creditEvents = 1

-----------------------------------------------------------------------------
(* The bullet pools (SpecPool) *)

InitPool ==
    /\ now = 0
    /\ boss = NoBoss
    /\ tween = NoTween
    /\ deathTweens = 0
    /\ stats = InitStats
    /\ tick = NoTick
    /\ player = InitPlayer
    /\ mgr = InitMgr
    /\ spawner = InitSpawner
    /\ timers = {}
    /\ items = InitItems
    /\ ledger = InitLedger
    /\ \E name \in PoolNames : pools = InitPools(name)
    /\ gs = InitGs
    /\ mine = NoMine
    /\ enemy = NoEnemy
    /\ hit = NoHit
    /\ spawn = NoSpawn
    /\ progress = NewProgressManager
    /\ dm = NewDifficultyManager
    /\ upd = NoUpdate

NextPool ==
    \/ \E name \in PoolNames \cup {"explosions"} : Acquire(name)
    \/ Release

SpecPool == InitPool /\ [][NextPool]_vars

\* C6: the number of active instances of a pool never exceeds its configured
\* maximum (nor does the number of instances ever created), and a get() on a
\* pool whose instances are all active returns no value and creates none.
C6_PoolCapacityBound ==
    /\ pools.pool.active <= ConfiguredMax(pools.pool.name)
    /\ pools.pool.size <= ConfiguredMax(pools.pool.name)
    /\ pools.pool.active <= pools.pool.size
    /\ (pools.fullBefore =>
          /\ pools.lastGet = "null"
          /\ pools.pool.size = pools.sizeBefore
          /\ pools.pool.active = ConfiguredMax(pools.pool.name))

\* a get() was made on a pool with every instance active
C6_Witness ==
    /\ pools.fullBefore
    /\ pools.lastGet = "null"
    /\ pools.pool.active = pools.pool.maxSize

-----------------------------------------------------------------------------
(* GameState and the collision handlers (SpecState) *)

\* the coin values drawn for the loot of the enemy types
LootValues ==
    UNION {Between(EnemyTypes(t).credits.min, EnemyTypes(t).credits.max) :
             t \in EnemyTypeKeys}

NextState ==
    \/ SpawnMine
    \/ \E type \in EnemyTypeKeys : SpawnEnemy(type)
    \/ \E value \in LootValues : \E drop \in PowerUpTypeKeys \cup {"none"} :
          BulletHitEnemy(value, drop)
    \/ \E near \in BOOLEAN : BulletHitMine(near)
    \/ MineHitPlayer
    \/ \E inProximity, offScreen \in BOOLEAN : MinePreUpdate(inProximity, offScreen)
    \/ EnemyBulletHitPlayer
    \/ InvincibilityEnd

SpecState == Init /\ [][NextState]_vars

\* C7: GameState is changed only by the handlers of the semantic events; no
\* entity calls a GameState mutator or the scene's life-loss routine itself.
C7_GameStateOnlyViaEvents ==
    gs.direct = 0

\* the last-fired timestamps of the four attacks
LastFired(b) ==
    <<b.lastSprayTime, b.lastAimedTime, b.lastSummonTime, b.lastRingTime>>

\* C17: while the boss is ENTERING no attack executes: in a step taken by an
\* entering boss no wind-up starts and no bullet leaves (the tween is as it
\* was), no bossSummon is emitted, and no last-fired timestamp changes.
C17_NoAttackWhileEntering ==
    [][(boss.active /\ boss.isEntering)
          => /\ LastFired(boss') = LastFired(boss)
             /\ tween' = tween
             /\ tick'.selected = "none"
             /\ tick'.summon = NoSummon
             /\ ~boss'.isAttacking]_vars

\* an entering boss was updated at a time when a cooldown had already elapsed
C17_Witness ==
    /\ boss.active /\ boss.isEntering /\ ~boss.isDying
    /\ now >= boss.aimedCooldown
    /\ hasAttack(boss, "aimed")

\* C18: once isDying is set the boss fires no further bullets and emits no
\* further bossSummon: a step taken after it starts no wind-up, lets no bullet
\* leave (also when the wind-up began before isDying and its onYoyo runs
\* afterwards), emits no summon and writes no last-fired time.
C18_DyingBossFiresNothing ==
    [][boss.isDying
          => /\ ~(tween'.fired /\ ~tween.fired)
             /\ ~(tween'.stage = "windup" /\ tween.stage # "windup")
             /\ (tick' # tick => tick' = NoTick)
             /\ (boss'.isDying => LastFired(boss') = LastFired(boss))]_vars

\* a spray wind-up that began before the boss died reached its onYoyo after
\* isDying was set, and no bullet left
C18_Witness ==
    /\ boss.isDying
    /\ tween.kind = "spray" /\ tween.stage = "recover" /\ ~tween.fired

\* C19: an encounter that ends in defeat produces exactly one addScore
\* carrying the boss's points, exactly one awardLife and exactly one
\* spawnPowerUp, all emitted by the completion of the death sequence that
\* Boss.die started and not before; a boss that has not died earns nothing.
C19_RewardsOncePerDefeat ==
    /\ stats.addScoreEvents = stats.defeated
    /\ stats.awardLifeEvents = stats.defeated
    /\ stats.powerUpRequests = stats.defeated
    /\ stats.defeated = stats.dieCount - deathTweens
    /\ gs.lives = START_LIVES + stats.defeated
    /\ gs.score = (IF stats.defeated > 0 THEN boss.points ELSE 0)
    /\ (stats.defeated > 0 => stats.scorePoints = boss.points)
    /\ ((boss.isDying /\ ~boss.active) => stats.defeated = 1)
    /\ (boss.active => stats.defeated = 0)

\* a boss died, its death sequence ran to its end and the rewards were issued
C19_Witness ==
    /\ boss.isDying /\ ~boss.active
    /\ stats.addScoreEvents = 1 /\ stats.awardLifeEvents = 1
    /\ stats.powerUpRequests = 1
    /\ gs.score = boss.points

\* C20: boss types rotate cyclically through the spawn order: the index of
\* the next boss type always equals the number of bosses defeated modulo the
\* length of the spawn order; it advances by exactly one step, wrapping after
\* the last entry, on every defeat, and changes at no other time.
C20_BossTypeRotation ==
    /\ [](mgr.currentBossIndex = mgr.bossesDefeated % Len(SPAWN_ORDER))
    /\ [][mgr'.bossesDefeated # mgr.bossesDefeated
             => /\ mgr'.bossesDefeated = mgr.bossesDefeated + 1
                /\ mgr'.currentBossIndex =
                       (mgr.currentBossIndex + 1) % Len(SPAWN_ORDER)]_vars
    /\ [][mgr'.currentBossIndex # mgr.currentBossIndex
             => /\ mgr'.bossesDefeated = mgr.bossesDefeated + 1
                /\ stats'.defeated = stats.defeated + 1]_vars

\* the last boss of the spawn order was defeated and the index wrapped
C20_Witness ==
    /\ mgr.bossesDefeated = Len(SPAWN_ORDER)
    /\ mgr.currentBossIndex = 0
    /\ boss.type = SPAWN_ORDER[Len(SPAWN_ORDER)]

-----------------------------------------------------------------------------
(* The collision handlers on a session in progress (SpecCollide) *)

\* the ends of the credit ranges of the enemy types
CreditEnds ==
    UNION {{EnemyTypes(t).credits.min, EnemyTypes(t).credits.max} :
             t \in EnemyTypeKeys}

\* a session in progress: a boss has just been spawned, the coins of k
\* fighters killed earlier are still on screen, the player is down to the
\* lower of the explored healths
InitCollide ==
    \E k \in 0..NumSlots :
        LET r == spawnBoss(InitMgr, InitSpawner)
            h == CHOOSE x \in StartHealths : \A y \in StartHealths : x <= y
        IN
        /\ now = 0
        /\ boss = r.boss
        /\ tween = NoTween
        /\ deathTweens = 0
        /\ stats = InitStats
        /\ tick = NoTick
        /\ player = [InitPlayer EXCEPT !.health = h]
        /\ mgr = r.mgr
        /\ spawner = r.spawner
        /\ timers = {}
        /\ items = [InitItems EXCEPT !.coin =
                      [i \in Slots |-> IF i <= k
                                       THEN coinSpawn(FreshItem, EnemyTypes("fighter").credits.min)
                                       ELSE FreshItem]]
        /\ ledger = InitLedger
        /\ pools = InitPools("bullets")
        /\ gs = [InitGs EXCEPT !.score = k * EnemyTypes("fighter").points,
                               !.enemiesKilled = k, !.viaEvent = 2 * k]
        /\ mine = NoMine
        /\ enemy = NoEnemy
        /\ hit = NoHit
        /\ spawn = NoSpawn
        /\ progress = NewProgressManager
        /\ dm = NewDifficultyManager
        /\ upd = NoUpdate

NextCollide ==
    \/ SpawnMine
    \/ \E type \in EnemyTypeKeys : SpawnEnemy(type)
    \/ \E value \in CreditEnds : \E drop \in {"none"} :
          BulletHitEnemy(value, drop)
    \/ MineHitPlayer
    \/ EnemyBulletHitPlayer
    \/ EnemyHitPlayer
    \/ BossHitPlayer
    \/ InvincibilityEnd

SpecCollide == InitCollide /\ [][NextCollide]_vars

\* the player-damage handlers of CollisionManager
DamageHandlers == {"enemyBullet", "enemyBody", "mine", "bossBody"}

\* C11: each player-damage handler (enemy bullet, enemy body, mine contact,
\* boss body) that runs while the player's isInvincible flag is set does
\* nothing: Player.takeDamage is not called, no loseLife event is emitted,
\* lives stay, and the other entity is not deactivated, destroyed or exploded.
C11_InvincibleHitIsNoOp ==
    (hit.handler \in DamageHandlers /\ hit.invincible)
        => /\ ~hit.applied
           /\ hit.loseLife = 0
           /\ ~hit.livesDirect
           /\ ~hit.otherGone

\* an enemy bullet reached an invincible player
C11_Witness ==
    hit.handler = "enemyBullet" /\ hit.invincible

\* the events a killing hit must emit: one addScore carrying the enemy's
\* configured points and one enemyKilled
KillEvents ==
    /\ hit.addScore = 1
    /\ hit.points = EnemyTypes(hit.type).points
    /\ hit.enemyKilled = 1

\* one coin spawned, its value within the credit range of the enemy's loot
CoinInRange ==
    /\ hit.coins = 1
    /\ hit.coinValue >= EnemyTypes(hit.type).credits.min
    /\ hit.coinValue <= EnemyTypes(hit.type).credits.max

\* C12 as stated: a player-bullet hit that brings an enemy's health to 0 emits
\* exactly one addScore with the enemy's points and exactly one enemyKilled
\* and spawns a coin within the enemy's credit range; a hit that does not kill
\* emits neither event and spawns no coin.
C12_KillAlwaysDropsCoin ==
    hit.handler = "bulletEnemy"
        => IF hit.killed
           THEN KillEvents /\ CoinInRange
           ELSE hit.addScore = 0 /\ hit.enemyKilled = 0 /\ hit.coins = 0

\* C12, amended: a killing hit emits exactly one addScore with the enemy's
\* points and exactly one enemyKilled; it spawns one coin within the enemy's
\* credit range when the coin pool hands out an instance and none when every
\* coin of the pool is active; a hit that does not kill emits neither event
\* and spawns no coin.
C12_KillTriggersLoot ==
    hit.handler = "bulletEnemy"
        => IF hit.killed
           THEN /\ KillEvents
                /\ IF hit.coinFree THEN CoinInRange ELSE hit.coins = 0
           ELSE hit.addScore = 0 /\ hit.enemyKilled = 0 /\ hit.coins = 0

\* a fighter died of one hit and dropped its coin
C12_Witness ==
    /\ hit.handler = "bulletEnemy" /\ hit.type = "fighter"
    /\ hit.killed /\ hit.coins = 1

\* a callback emitted loseLife exactly when its own damage left the player's
\* health at zero, and did not touch lives by a call of its own
LoseLifeIffZeroed ==
    /\ hit.loseLife <= 1
    /\ (hit.loseLife = 1) <=> hit.zeroed
    /\ ~hit.livesDirect

\* C13: a player-damage collision handler emits a loseLife event if and only
\* if the damage it applied in that callback brought the player's health to
\* zero, at most one per callback, and never changes the lives counter itself.
C13_LoseLifeOnlyByEvent ==
    hit.handler \in DamageHandlers => LoseLifeIffZeroed

\* the same for the three handlers that call Player.takeDamage themselves
C13_TakeDamageHandlers ==
    hit.handler \in DamageHandlers \ {"mine"} => LoseLifeIffZeroed

\* a step in which a handler damaged the player and the player survived
SurvivedHit ==
    /\ hit'.applied /\ ~hit'.zeroed
    /\ player'.health < player.health

\* C27: when the player survives a hit, temporary invincibility is granted for
\* boss-body contact and for a mine explosion (isInvincible is true after the
\* handler) but not for an enemy-bullet hit (isInvincible is still false).
C27_InvincibilityAfterSurvivedHit ==
    [][SurvivedHit
          => /\ hit'.handler \in {"bossBody", "mine"} => player'.isInvincible
             /\ hit'.handler = "enemyBullet" => ~player'.isInvincible]_vars

\* the player has just survived the boss's body and is invincible
C27_Witness ==
    /\ hit.handler = "bossBody" /\ hit.applied /\ ~hit.zeroed
    /\ player.health = PLAYER_MAX_HEALTH - BOSS_COLLISION_DAMAGE
    /\ player.isInvincible

-----------------------------------------------------------------------------
(* Difficulty progression (SpecDifficulty) *)

\* a frame's call of DifficultyManager.update
DifficultyUpdate(delta) ==
    /\ dm.difficulty < MaxDifficulty
    /\ LET r == difficultyUpdate(dm, spawner, delta)
       IN dm' = r.dm /\ spawner' = r.spawner
    /\ UNCHANGED <<now, bossVars, player, mgr, timers, upd, itemVars, pools,
                   stateVars>>

\* a frame's call of EnemySpawner.update; when it spawns, spawnRandomFormation
\* draws the formation key, the centre x, the type (roll) and the ship count
SpawnerUpdate(delta, next, key, centerX, roll, shipCount) ==
    /\ next \in Between(spawner.minSpawnInterval, spawner.maxSpawnInterval)
    /\ centerX \in SPAWN_MARGIN..(SCREEN_WIDTH - SPAWN_MARGIN)
    /\ shipCount \in ShipCounts(key)
    /\ spawner' = spawnerUpdate(spawner, delta, next)
    /\ spawn' = IF spawner'.spawnedFormation
                THEN spawnFormation(spawner, key, centerX, roll, shipCount)
                ELSE spawn
    /\ UNCHANGED <<now, bossVars, player, mgr, timers, dm, upd, itemVars, pools,
                   gs, mine, enemy, hit, progress>>

\* the formation every spawn of this specification draws
FixedSpawn(delta, next) ==
    SpawnerUpdate(delta, next, "v", SCREEN_WIDTH \div 2, 0, 0)

\* the interval draws explored
SpawnIntervals == {i * 50 : i \in 10..60}

NextDifficulty ==
    \/ \E delta \in DifficultyDeltas : DifficultyUpdate(delta)
    \/ \E next \in SpawnIntervals : FixedSpawn(1000, next)

SpecDifficulty == Init /\ [][NextDifficulty]_vars

\* C14: the difficulty level never decreases: every DifficultyManager.update
\* call leaves the level unchanged or higher than before.
C14_DifficultyNeverDecreases ==
    [][dm'.difficulty >= dm.difficulty]_vars

\* an update raised the level
C14_Witness ==
    dm.increased /\ dm.difficulty > 1

\* C31: DifficultyManager.update returns true exactly when the level changed
\* in that call (the accumulated timer reached the interval, the level went
\* up by one and the timer was reset) and returns false, with the level
\* unchanged and the timer accumulated below the interval, otherwise.
C31_UpdateReturnsLevelChanged ==
    [][dm' # dm
         => /\ dm'.increased = (dm'.difficulty # dm.difficulty)
            /\ dm'.increased
                  => /\ dm'.difficulty = dm.difficulty + 1
                     /\ dm'.difficultyTimer = 0
                     /\ \E delta \in DifficultyDeltas :
                           dm.difficultyTimer + delta >= dm.difficultyInterval
            /\ ~dm'.increased
                  => /\ dm'.difficultyTimer >= dm.difficultyTimer
                     /\ dm'.difficultyTimer < dm.difficultyInterval]_vars

\* an update returned false, its timer still running, after an earlier one
\* had raised the level
C31_Witness ==
    ~dm.increased /\ dm.difficulty > 1 /\ dm.difficultyTimer > 0

\* the mine-spawn interval never falls below the configured minimum
MineIntervalFloored ==
    dm.mineSpawnInterval >= MIN_MINE_SPAWN_INTERVAL

\* C15: the mine-spawn interval decreases with difficulty and is floored:
\* after every difficulty increase it is less than or equal to its value before
\* the increase, starting from the session's initial interval, and it never
\* falls below the configured minimum.
C15_MineIntervalDecreases ==
    /\ [][dm'.difficulty > dm.difficulty
            => dm'.mineSpawnInterval <= dm.mineSpawnInterval]_vars
    /\ []MineIntervalFloored

\* the same from the second increase on, when the value before is a computed one
C15_DecreasesAfterFirst ==
    [][(dm'.difficulty > dm.difficulty /\ dm.difficulty > 1)
            => dm'.mineSpawnInterval <= dm.mineSpawnInterval]_vars

\* C16: after any number of difficulty increases the spawner's interval
\* bounds stay floored and ordered: minSpawnInterval >= 500,
\* maxSpawnInterval >= 1000 and minSpawnInterval <= maxSpawnInterval.
C16_SpawnBoundsFlooredOrdered ==
    /\ spawner.minSpawnInterval >= MIN_SPAWN_FLOOR
    /\ spawner.maxSpawnInterval >= MAX_SPAWN_FLOOR
    /\ spawner.minSpawnInterval <= spawner.maxSpawnInterval

\* the increases went on until both bounds sit on their floors
C16_Witness ==
    /\ dm.difficulty >= 10
    /\ spawner.minSpawnInterval = MIN_SPAWN_FLOOR
    /\ spawner.maxSpawnInterval = MAX_SPAWN_FLOOR

-----------------------------------------------------------------------------
(* Boss spawn timing (SpecManager) *)

\* frame lengths explored for BossManager.update, ms
ManagerDeltas == {10000, 30000, 50000}

\* a frame's call of BossManager.update
ManagerUpdate(delta) ==
    /\ LET r == mgrUpdate(mgr, spawner, boss, delta)
       IN /\ r.spawned => mgr.bossesDefeated < MaxBosses
          /\ mgr' = r.mgr
          /\ upd' = UpdateOf(mgr, delta, r)
          /\ spawner' = r.spawner
          /\ boss' = r.boss
          /\ tick' = IF r.spawned THEN NoTick ELSE tick
          /\ stats' = IF r.spawned THEN InitStats ELSE stats
          /\ tween' = IF r.spawned THEN NoTween ELSE tween
    /\ UNCHANGED <<now, deathTweens, player, timers, dm, itemVars, pools, stateVars>>

NextManager ==
    \/ \E delta \in ManagerDeltas : ManagerUpdate(delta)
    \/ DevSpawnBoss
    \/ \E amount \in EncounterAmounts : BossHit(amount)
    \/ DeathTweenComplete

SpecManager == Init /\ [][NextManager]_vars

\* the timer value a spawn is due at
SpawnThreshold(first) == IF first THEN FIRST_SPAWN_DELAY ELSE SPAWN_INTERVAL

\* C21: BossManager.update spawns the first boss on the first tick at which
\* the accumulated timer reaches the first-spawn delay and every later
\* timer-driven boss on the first tick at which the timer, reset to 0 at the
\* previous spawn, reaches the inter-boss interval; during a boss fight it
\* neither advances the timer nor spawns a boss.
C21_BossSpawnTiming ==
    upd.ran =>
        IF upd.fight
        THEN ~upd.spawned /\ upd.after = upd.before
        ELSE /\ upd.before < SpawnThreshold(upd.first)
             /\ upd.spawned <=> (upd.before + upd.delta >= SpawnThreshold(upd.first))
             /\ upd.after = (IF upd.spawned THEN 0 ELSE upd.before + upd.delta)

\* a later boss was spawned by the timer reaching the inter-boss interval
C21_Witness ==
    /\ upd.ran /\ upd.spawned /\ ~upd.first
    /\ upd.before + upd.delta >= SPAWN_INTERVAL

-----------------------------------------------------------------------------
(* The spawner under difficulty increases (SpecDifficulty) *)

\* a step in which EnemySpawner.update spawned a formation
SpawnStep ==
    dm' = dm /\ spawner'.spawnedFormation

\* C22: every time EnemySpawner.update spawns a formation, the next spawn
\* interval it sets lies between the minSpawnInterval and maxSpawnInterval in
\* force at that moment, over any number of spawns and difficulty increases
\* in between.
C22_NextIntervalWithinBounds ==
    [][SpawnStep
          => /\ spawner'.spawnInterval >= spawner.minSpawnInterval
             /\ spawner'.spawnInterval <= spawner.maxSpawnInterval
             /\ spawner'.spawnTimer = 0]_vars

\* after the first difficulty increase a spawn drew the new, lower maximum
C22_Witness ==
    /\ dm.difficulty = 2
    /\ spawner.spawnedFormation /\ spawner.spawnTimer = 0
    /\ spawner.spawnInterval = spawner.maxSpawnInterval
    /\ spawner.maxSpawnInterval < MAX_SPAWN_INTERVAL

-----------------------------------------------------------------------------
(* Pausing and resuming the spawner (SpecSpawner) *)

\* frame lengths explored for EnemySpawner.update, ms
SpawnerDeltas == {500, 1000}

\* DevConsole.toggleSpawning (key P): resume when paused, else pause
ToggleSpawning ==
    /\ spawner' = IF spawner.isPaused THEN resume(spawner) ELSE pause(spawner)
    /\ UNCHANGED <<now, bossVars, player, mgr, timers, dm, upd, itemVars, pools,
                   stateVars>>

NextSpawner ==
    \/ \E delta \in SpawnerDeltas : \E next \in SpawnIntervals :
          FixedSpawn(delta, next)
    \/ ToggleSpawning
    \/ DifficultyUpdate(DIFFICULTY_INTERVAL)

SpecSpawner == Init /\ [][NextSpawner]_vars

\* the accumulated spawn timer and the current spawn interval
SpawnClock(sp) == <<sp.spawnTimer, sp.spawnInterval>>

\* C23: pause() and resume() only gate spawning: neither changes the
\* accumulated spawn timer or the current spawn interval, update() changes
\* neither and spawns nothing while the spawner is paused, so after resume()
\* the timer continues from the value it had when pause() was called.
C23_PauseOnlyGates ==
    /\ [][spawner'.isPaused # spawner.isPaused
             => SpawnClock(spawner') = SpawnClock(spawner)]_vars
    /\ [][(spawner.isPaused /\ spawner'.isPaused)
             => /\ SpawnClock(spawner') = SpawnClock(spawner)
                /\ ~SpawnStep]_vars

\* the spawner was paused in the middle of an interval, and an update ran
\* while it was paused
C23_Witness ==
    /\ spawner.isPaused /\ spawner.spawnTimer > 0
    /\ ~spawner.spawnedFormation
    /\ spawner.spawnTimer + 1000 >= spawner.spawnInterval

-----------------------------------------------------------------------------
(* Enemy creation (SpecFormation) *)

\* highest difficulty level explored with formations
MaxLevel == 3
\* the centre x positions getRandomSpawnX is explored with
SpawnXs == {60, 100, 240, 380, 420}
\* the random fractions explored, percent
Rolls == {0, 40, 70, 99}
\* the type keys handed to spawnSingleEnemy: configured ones and one that
\* GameConfig.ENEMY.TYPES does not have
SingleTypes == {"fighter", "bomber", "drone"}

\* a due EnemySpawner.update spawning a random formation
FormationSpawn(key, centerX, roll, shipCount) ==
    SpawnerUpdate(1000, spawner.minSpawnInterval, key, centerX, roll, shipCount)

\* the difficulty timer running out below the highest level explored
LevelUp ==
    /\ dm.difficulty < MaxLevel
    /\ DifficultyUpdate(DIFFICULTY_INTERVAL)

\* the x a summoned enemy enters at: beside the left or the right edge
SummonXs == {0 - 30, SCREEN_WIDTH + 30}

\* BossManager's summon calling EnemySpawner.spawnSingleEnemy
SpawnSingleEnemy(x, type) ==
    /\ spawn' = spawnSingleEnemy(spawner, x, type)
    /\ UNCHANGED <<now, bossVars, player, mgrVars, itemVars, pools, gs, mine,
                   enemy, hit, progress>>

NextFormation ==
    \/ \E key \in FormationKeys, centerX \in SpawnXs, roll \in Rolls,
          shipCount \in 0..5 : FormationSpawn(key, centerX, roll, shipCount)
    \/ LevelUp
    \/ \E x \in SummonXs, type \in SingleTypes : SpawnSingleEnemy(x, type)
    \/ \E type \in EnemyTypeKeys : SpawnEnemy(type)

SpecFormation == Init /\ [][NextFormation]_vars

\* the enemy has the speed and fire rate createEnemy gives its type under the
\* multiplier mult
ScaledBy(e, mult) ==
    /\ e.speed = (EnemyTypes(e.type).speed * mult) \div 100
    /\ e.fireRate = Max(MIN_FIRE_RATE, (EnemyTypes(e.type).fireRate * 100) \div mult)

\* C24: the difficulty multiplier is applied to an enemy only at its creation:
\* a change of difficultyMultiplier changes the speed and fire rate of no
\* enemy that exists, and every enemy created afterwards is scaled with the
\* multiplier the spawner has at that moment.
C24_MultiplierAtCreationOnly ==
    /\ [][spawner'.difficultyMultiplier # spawner.difficultyMultiplier
             => spawn'.created = spawn.created /\ enemy' = enemy]_vars
    /\ [][spawn' # spawn
             => \A i \in 1..Len(spawn'.created) :
                    ScaledBy(spawn'.created[i], spawner.difficultyMultiplier)]_vars
    /\ [][(enemy'.active /\ ~enemy.active)
             => ScaledBy(enemy', spawner.difficultyMultiplier)]_vars

\* a formation created at the initial multiplier still has its speeds after
\* the multiplier rose, next to an enemy created with the raised one
C24_Witness ==
    /\ spawner.difficultyMultiplier > 100
    /\ Len(spawn.created) > 1
    /\ \A i \in 1..Len(spawn.created) : ScaledBy(spawn.created[i], 100)
    /\ enemy.active
    /\ ScaledBy(enemy, spawner.difficultyMultiplier)
    /\ enemy.speed > EnemyTypes(enemy.type).speed
    /\ enemy.fireRate < EnemyTypes(enemy.type).fireRate

\* the x of the enemies a spawn call created, in order
CreatedXs == [i \in 1..Len(spawn.created) |-> spawn.created[i].x]

\* x is on the screen
OnScreen(x) == x >= 0 /\ x <= SCREEN_WIDTH

\* x is strictly inside the spawn margins
InsideMargins(x) == x > SPAWN_MARGIN /\ x < SCREEN_WIDTH - SPAWN_MARGIN

SPAWN_WEIGHTS(type) ==
    CASE type = "fighter" -> 50
      [] type = "heavy" -> 25
      [] type = "scout" -> 15
      [] type = "bomber" -> 10

\* the types of the registry in configuration order
AllTypes == <<"fighter", "heavy", "scout", "bomber">>

RECURSIVE TotalWeight(_)
\* the sum of the spawn weights of the listed types
TotalWeight(types) ==
    IF Len(types) = 0 THEN 0
    ELSE SPAWN_WEIGHTS(Head(types)) + TotalWeight(Tail(types))

RECURSIVE WeightedFrom(_, _)
\* the first listed type whose cumulative weight exceeds the point
WeightedFrom(types, point) ==
    IF Len(types) = 1 \/ point < SPAWN_WEIGHTS(Head(types)) THEN Head(types)
    ELSE WeightedFrom(Tail(types), point - SPAWN_WEIGHTS(Head(types)))

\* a weighted draw over the listed types for a random fraction of roll percent
WeightedDraw(types, roll) ==
    WeightedFrom(types, (roll * TotalWeight(types)) \div 100)

\* C29: the enemy type of a spawned formation is the weighted draw over the
\* configured spawn weights (over the whole table or over the formation's
\* types); the 70/30 fighter/heavy default is not used while weights are
\* configured.
C29_TypeByWeightedDraw ==
    spawn.op = "formation"
        => \/ spawn.type = WeightedDraw(AllTypes, spawn.roll)
           \/ spawn.type = WeightedDraw(Formations(spawn.key).types, spawn.roll)

-----------------------------------------------------------------------------
(* Spawning and firing on exhausted pools (SpecExhaust) *)

\* latest scene time a shot is explored at, ms
MaxShootTime == 600
\* free instances a bullet pool starts with
MaxFree == 2

\* a call is marked in the observation
Called(sh, op) == [sh EXCEPT !.op = op, !.att = ~@]

\* the fire key held at a frame of the given time
PlayerShoot(time) ==
    /\ pools.pool.name = "bullets" /\ time <= MaxShootTime
    /\ pools' = Called(shoot(pools, time), "shoot")
    /\ UNCHANGED <<now, bossVars, player, mgrVars, itemVars, stateVars>>

\* Enemy.update letting an enemy shoot
EnemyShoot(time) ==
    /\ pools.pool.name = "enemyBullets" /\ time <= MaxShootTime
    /\ pools' = Called(enemyShoot(pools, time), "enemyShoot")
    /\ UNCHANGED <<now, bossVars, player, mgrVars, itemVars, stateVars>>

\* the onYoyo callback of a spray, aimed or ring attack firing its bullets
BossVolley(kind) ==
    /\ pools.pool.name = "enemyBullets"
    /\ pools' = Called(bossVolley(pools, kind), "bossVolley")
    /\ UNCHANGED <<now, bossVars, player, mgrVars, itemVars, stateVars>>

\* CollisionManager.spawnCoins, whatever the coin pool holds
TrySpawnCoin(value) ==
    /\ items' = [items EXCEPT !.coin = spawnCoins(@, value)]
    /\ pools' = Called([pools EXCEPT !.threw = FALSE,
                            !.fired = IF FirstInactive(items.coin) = 0 THEN 0 ELSE 1],
                       "coin")
    /\ UNCHANGED <<now, bossVars, player, mgrVars, ledger, stateVars>>

\* CollisionManager.trySpawnPowerUp past its drop roll, whatever the pool holds
TrySpawnPowerUp(drop) ==
    /\ items' = [items EXCEPT !.pu = trySpawnPowerUp(@, drop)]
    /\ pools' = Called([pools EXCEPT !.threw = FALSE,
                            !.fired = IF FirstInactive(items.pu) = 0 THEN 0 ELSE 1],
                       "powerUp")
    /\ UNCHANGED <<now, bossVars, player, mgrVars, ledger, stateVars>>

\* a pool all of whose instances were created, free of them still inactive
InFlight(name, free) ==
    [InitPools(name) EXCEPT !.pool.size = ConfiguredMax(name),
                            !.pool.active = ConfiguredMax(name) - free]

InitExhaust ==
    /\ now = 0
    /\ boss = NoBoss
    /\ tween = NoTween
    /\ deathTweens = 0
    /\ stats = InitStats
    /\ tick = NoTick
    /\ player = InitPlayer
    /\ mgr = InitMgr
    /\ spawner = InitSpawner
    /\ timers = {}
    /\ items = InitItems
    /\ ledger = InitLedger
    /\ \E name \in PoolNames, free \in 1..MaxFree : pools = InFlight(name, free)
    /\ gs = InitGs
    /\ mine = NoMine
    /\ enemy = NoEnemy
    /\ hit = NoHit
    /\ spawn = NoSpawn
    /\ progress = NewProgressManager
    /\ dm = NewDifficultyManager
    /\ upd = NoUpdate

\* the times a shot is tried at: before and when the fire rate allows it
ShootTimes == {pools.lastFired + 100, pools.lastFired + PLAYER_FIRE_RATE}

\* a bullet leaving play while fewer than MaxFree instances are free
BulletLeaves ==
    /\ ConfiguredMax(pools.pool.name) - pools.pool.active < MaxFree
    /\ Release

NextExhaust ==
    \/ \E time \in ShootTimes : PlayerShoot(time)
    \/ EnemyShoot(pools.lastFired + PLAYER_FIRE_RATE)
    \/ \E kind \in {"spray", "aimed", "ring"} : BossVolley(kind)
    \/ BulletLeaves
    \/ TrySpawnCoin(5)
    \/ TrySpawnPowerUp("health")
    \/ \E kind \in {"pu", "coin"}, i \in Slots : ItemOffScreen(kind, i)

SpecExhaust == InitExhaust /\ [][NextExhaust]_vars

\* the pool the call draws from has no free slot
Exhausted(op) ==
    CASE op = "coin" -> FirstInactive(items.coin) = 0
      [] op = "powerUp" -> FirstInactive(items.pu) = 0
      [] OTHER -> GroupGet(pools.pool).got = "null"

\* C25: a spawn or fire on a pool without a free slot does nothing: a player
\* shot, an enemy shot, a boss attack's bullets, a coin spawn and a power-up
\* spawn each activate nothing, throw nothing and leave every pooled instance,
\* the bullet pool and the shooter's lastFired as they were.
C25_ExhaustedPoolNoOp ==
    [][(pools'.att # pools.att /\ Exhausted(pools'.op))
          => /\ pools'.pool = pools.pool
             /\ pools'.lastFired = pools.lastFired
             /\ items' = items
             /\ pools'.fired = 0
             /\ ~pools'.threw]_vars

\* every pool is exhausted at once: both item pools and the bullet pool, past
\* the fire rate, after a call that activated nothing
C25_Witness ==
    /\ FirstInactive(items.coin) = 0 /\ FirstInactive(items.pu) = 0
    /\ GroupGet(pools.pool).got = "null"
    /\ pools.op \in {"shoot", "enemyShoot", "bossVolley"}
    /\ pools.fired = 0
    /\ pools.lastFired > 0

-----------------------------------------------------------------------------
(* One player bullet in the overlap pass of a physics step (SpecTick) *)

\* a player bullet in flight (Bullet.fire); dealt counts the takeDamage calls
\* made on its account
NewBullet == [active |-> TRUE, dealt |-> 0]

\* what bulletHitEnemy, bulletHitMine and bulletHitBoss do with the bullet:
\* bullet.setActive(false), then takeDamage(1) on the other object; none of
\* them looks at the bullet's active flag first
consume(bl) == [bl EXCEPT !.active = FALSE, !.dealt = @ + 1]

\* the overlap pass of one physics step for a bullet whose body overlaps the
\* given targets: the colliders run in the order they were added (bullets and
\* enemies, bullets and mines, bullets and the boss), each with no process
\* callback, and call their handler for every overlapping pair of bodies
BulletOverlaps(targets, value, drop, near) ==
    /\ ~gs.gameOver /\ targets # {}
    /\ "enemy" \in targets => enemy.active
    /\ "mine" \in targets => mine.active
    /\ "boss" \in targets => boss.active /\ stats.hits < MaxHits
    /\ IF "enemy" \in targets
       THEN /\ value \in Between(EnemyTypes(enemy.type).credits.min,
                                 EnemyTypes(enemy.type).credits.max)
            /\ drop \in EnemyTypes(enemy.type).dropTable \cup {"none"}
       ELSE value = 0 /\ drop = "none"
    /\ "mine" \notin targets => ~near
    /\ LET he == "enemy" \in targets
           hm == "mine" \in targets
           hb == "boss" \in targets
           e == IF he THEN bulletHitEnemy(enemy, gs, items, value, drop)
                ELSE [enemy |-> enemy, gs |-> gs, items |-> items]
           bl1 == IF he THEN consume(NewBullet) ELSE NewBullet
           m == IF hm THEN mineTakeDamage(mine, e.gs, player, 1, near)
                ELSE [mine |-> mine, gs |-> e.gs, player |-> player]
           bl2 == IF hm THEN consume(bl1) ELSE bl1
           b == IF hb THEN takeDamage(boss, 1)
                ELSE [boss |-> boss, died |-> FALSE, dieCalls |-> 0]
           bl3 == IF hb THEN consume(bl2) ELSE bl2
       IN /\ enemy' = e.enemy
          /\ items' = e.items
          /\ mine' = m.mine
          /\ gs' = m.gs
          /\ player' = m.player
          /\ boss' = b.boss
          /\ deathTweens' = deathTweens + b.dieCalls
          /\ stats' = IF hb THEN [stats EXCEPT !.hits = @ + 1,
                                               !.dieCount = @ + b.dieCalls,
                                               !.lastDied = b.died]
                      ELSE stats
          /\ hit' = [NoHit EXCEPT !.handler = "bulletPass", !.bullet = bl3]
    /\ UNCHANGED <<now, tween, tick, mgrVars, ledger, pools, spawn, progress>>

\* the objects a player bullet can overlap
BulletTargets == {"enemy", "mine", "boss"}

NextTick ==
    \/ SpawnMine
    \/ \E type \in EnemyTypeKeys : SpawnEnemy(type)
    \/ \E targets \in SUBSET BulletTargets, value \in CreditEnds \cup {0},
          near \in BOOLEAN : BulletOverlaps(targets, value, "none", near)
    \/ InvincibilityEnd

SpecTick == InitCollide /\ [][NextTick]_vars

\* C26: every handler that consumes a bullet clears the bullet's active flag
\* before it returns, so that within one tick one bullet applies damage to at
\* most one target and at most once.
C26_BulletDamagesOnce ==
    hit.handler = "bulletPass"
        => /\ ~hit.bullet.active
           /\ hit.bullet.dealt <= 1

-----------------------------------------------------------------------------
(* One enemy or one mine in all the passes of one tick (SpecOnce) *)

\* Phaser: destroy() disables the object's physics body and takes it off the
\* update list; neither a collider nor the update list calls into such an
\* object again. Enemy and Mine clear `active` only by destroy()
bodyEnabled(o) == o.active

\* the overlap pass of one physics step in which n player bullets overlap the
\* enemy: bulletHitEnemy runs for each pair whose enemy body is still enabled
EnemyOverlaps(n, value, drop) ==
    /\ ~gs.gameOver /\ enemy.active
    /\ value \in Between(EnemyTypes(enemy.type).credits.min,
                         EnemyTypes(enemy.type).credits.max)
    /\ drop \in EnemyTypes(enemy.type).dropTable \cup {"none"}
    /\ LET r1 == bulletHitEnemy(enemy, gs, items, value, drop)
           second == n = 2 /\ bodyEnabled(r1.enemy)
           r2 == IF second
                 THEN bulletHitEnemy(r1.enemy, r1.gs, r1.items, value, drop)
                 ELSE [r1 EXCEPT !.addScore = 0, !.points = 0, !.enemyKilled = 0]
       IN /\ enemy' = r2.enemy
          /\ gs' = r2.gs
          /\ items' = r2.items
          /\ hit' = [NoHit EXCEPT !.handler = "enemyPass",
                                  !.type = enemy.type,
                                  !.killed = r2.killed,
                                  !.otherGone = ~r2.enemy.active,
                                  !.addScore = r1.addScore + r2.addScore,
                                  !.points = r1.points + r2.points,
                                  !.enemyKilled = r1.enemyKilled + r2.enemyKilled,
                                  !.pairs = n,
                                  !.calls = IF second THEN 2 ELSE 1]
    /\ UNCHANGED <<now, bossVars, player, mgrVars, ledger, pools, mine, spawn, progress>>

\* the triggers of a mine's explosion path within one tick
MineTriggers == {"preUpdate", "contact", "bullet"}

\* one trigger on the mine of state st (mine, gs, player, the score awards and
\* the calls so far): Mine.preUpdate within the proximity radius, the
\* player-mine collider (mineHitPlayer) or the bullet-mine collider
\* (bulletHitMine), each skipped once the mine is destroyed
MineStep(trigger, on, st, near) ==
    IF ~on \/ ~bodyEnabled(st.mine) THEN st
    ELSE LET r == CASE trigger = "preUpdate" ->
                         IF st.player.active
                         THEN explode(st.mine, st.gs, st.player, TRUE)
                         ELSE [mine |-> st.mine, gs |-> st.gs, player |-> st.player]
                    [] trigger = "contact" -> mineHitPlayer(st.mine, st.gs, st.player)
                    [] trigger = "bullet" ->
                         mineTakeDamage(st.mine, st.gs, st.player, 1, near)
         IN [mine |-> r.mine, gs |-> r.gs, player |-> r.player,
             awards |-> st.awards + (IF r.gs.score # st.gs.score THEN 1 ELSE 0),
             calls |-> st.calls + 1]

\* one tick of a mine on which the triggers in `on` all fall: the update list
\* (Mine.preUpdate) before or after the physics step, whose colliders run in
\* the order CollisionManager.setup added them (player-mines, bullets-mines)
MineTick(on, preFirst, near) ==
    /\ ~gs.gameOver /\ mine.active /\ on # {}
    /\ LET st0 == [mine |-> mine, gs |-> gs, player |-> player,
                   awards |-> 0, calls |-> 0]
           st1 == IF preFirst THEN MineStep("preUpdate", "preUpdate" \in on, st0, near)
                  ELSE st0
           st2 == MineStep("contact", "contact" \in on, st1, near)
           st3 == MineStep("bullet", "bullet" \in on, st2, near)
           st4 == IF preFirst THEN st3
                  ELSE MineStep("preUpdate", "preUpdate" \in on, st3, near)
       IN /\ mine' = st4.mine
          /\ gs' = st4.gs
          /\ player' = st4.player
          /\ hit' = [NoHit EXCEPT !.handler = "minePass",
                                  !.invincible = player.isInvincible,
                                  !.otherGone = ~st4.mine.active,
                                  !.addScore = st4.awards,
                                  !.points = st4.gs.score - gs.score,
                                  !.pairs = Cardinality(on),
                                  !.calls = st4.calls]
    /\ UNCHANGED <<now, bossVars, mgrVars, itemVars, pools, enemy, spawn, progress>>

NextOnce ==
    \/ SpawnMine
    \/ \E type \in EnemyTypeKeys : SpawnEnemy(type)
    \/ \E n \in {1, 2}, value \in CreditEnds : EnemyOverlaps(n, value, "none")
    \/ \E on \in SUBSET MineTriggers, preFirst \in BOOLEAN, near \in BOOLEAN :
          MineTick(on, preFirst, near)
    \/ InvincibilityEnd

SpecOnce == InitCollide /\ [][NextOnce]_vars

\* C39: each enemy and each mine awards its points at most once over its
\* lifetime, however many bullets, contacts and proximity checks fall on it
\* in one tick: the score changes only in a step in which one live enemy or
\* mine is destroyed, and then by exactly that object's points; no pass over
\* one object awards twice; a destroyed object comes back only as a newly
\* spawned instance.
C39_PointsAwardedOnce ==
    /\ [][gs'.score # gs.score
            => \/ /\ enemy.active /\ ~enemy'.active /\ mine' = mine
                  /\ gs'.score = gs.score + enemy.points
               \/ /\ mine.active /\ ~mine'.active /\ enemy' = enemy
                  /\ gs'.score = gs.score + mine.points]_vars
    /\ [](hit.handler \in {"enemyPass", "minePass"} => hit.addScore <= 1)
    /\ [][/\ enemy'.active /\ ~enemy.active => gs'.enemies = gs.enemies + 1
          /\ mine'.active /\ ~mine.active => gs'.mines = gs.mines + 1]_vars

\* a mine touching an invincible player, one hit from destruction and within
\* the proximity radius was shot in that tick: the contact did nothing, the
\* bullet exploded it and awarded its points once, the proximity check was
\* skipped; an enemy had been destroyed before
C39_Witness ==
    /\ hit.handler = "minePass" /\ hit.pairs = 3 /\ hit.calls = 2
    /\ hit.invincible /\ hit.addScore = 1 /\ hit.points = MINE_POINTS
    /\ ~mine.active /\ ~enemy.active /\ gs.enemies = 1

-----------------------------------------------------------------------------
(* Unknown type keys (SpecTypeKey) *)

\* the enemy type keys explored: every configured one and one that
\* GameConfig.ENEMY.TYPES does not have
EnemyKeys == getTypeKeys \cup {"drone"}

\* the boss types forced: none, every configured one and one that
\* GameConfig.BOSS.TYPES does not have
ForcedBossTypes == BossTypeKeys \cup {NoType, "dreadnought"}

\* the dev console's boss spawn with the type BossManager.spawnBoss is
\* forced to
ForceSpawnBoss(forceType) ==
    /\ ~isBossActive(mgr, boss)
    /\ LET r == spawnBossForced(mgr, spawner, forceType)
       IN /\ mgr' = r.mgr
          /\ boss' = r.boss
          /\ spawner' = r.spawner
          /\ spawn' = [NoSpawn EXCEPT !.op = "boss", !.key = forceType,
                                      !.type = r.boss.type,
                                      !.warned = forceType # NoType
                                          /\ BossConstructor(forceType).warned]
    /\ stats' = InitStats
    /\ tick' = NoTick
    /\ tween' = NoTween
    /\ UNCHANGED <<now, deathTweens, player, timers, itemVars, pools, gs, mine,
                   enemy, hit, dm, upd, progress>>

\* a boss fight ending: BossManager.onBossDefeated for the destroyed boss and
\* the resume callback it schedules
BossLeaves ==
    /\ isBossActive(mgr, boss)
    /\ mgr.bossesDefeated < MaxBosses
    /\ LET r == onBossDefeated(mgr, gs, boss)
       IN /\ mgr' = r.mgr
          /\ gs' = r.gs
    /\ boss' = [boss EXCEPT !.active = FALSE]
    /\ spawner' = resume(spawner)
    /\ UNCHANGED <<now, tween, deathTweens, stats, tick, player, timers, dm,
                   upd, itemVars, pools, mine, enemy, hit, spawn, progress>>

NextTypeKey ==
    \/ \E x \in SummonXs, type \in EnemyKeys : SpawnSingleEnemy(x, type)
    \/ \E forceType \in ForcedBossTypes : ForceSpawnBoss(forceType)
    \/ BossLeaves
    \/ LevelUp

SpecTypeKey == Init /\ [][NextTypeKey]_vars

\* the enemy is a whole, active enemy of the type with that type's stats
\* under the multiplier mult
EnemyOfType(e, type, mult) ==
    /\ e.active /\ e.type = type
    /\ e.health = EnemyTypes(type).health
    /\ e.points = EnemyTypes(type).points
    /\ ScaledBy(e, mult)

\* the boss is a whole, active boss of the type with that type's stats
BossOfType(b, type) ==
    /\ b.active /\ b.type = type
    /\ b.health = BossTypes(type).health /\ b.maxHealth = BossTypes(type).health
    /\ b.points = BossTypes(type).points
    /\ b.attacks = BossTypes(type).attacks
    /\ b.summonTypes = BossTypes(type).summonTypes

\* C30: creating an enemy or a boss with an unknown type key halts nothing:
\* the call is possible with every key and completes, a warning is logged and
\* the entity is created as the default type (fighter for enemies, megaship
\* for bosses) with that type's stats; a known key is created as itself
\* without a warning.
C30_UnknownKeyFallsBack ==
    /\ [][spawn' # spawn /\ spawn'.op = "single"
            => /\ Len(spawn'.created) = 1
               /\ spawn'.warned = (spawn'.type \notin getTypeKeys)
               /\ EnemyOfType(spawn'.created[1],
                              IF spawn'.type \in getTypeKeys THEN spawn'.type
                              ELSE "fighter",
                              spawner'.difficultyMultiplier)]_vars
    /\ [][boss'.active /\ ~boss.active /\ spawn'.key # NoType
            => /\ spawn'.op = "boss"
               /\ spawn'.warned = (spawn'.key \notin BossTypeKeys)
               /\ BossOfType(boss', IF spawn'.key \in BossTypeKeys
                                    THEN spawn'.key ELSE "megaship")]_vars
    /\ [](\A x \in SummonXs, type \in EnemyKeys :
            ENABLED SpawnSingleEnemy(x, type))
    /\ [](~isBossActive(mgr, boss)
            => \A forceType \in ForcedBossTypes :
                  ENABLED ForceSpawnBoss(forceType))

\* an enemy was created with a key the configuration lacks, under a raised
\* multiplier, and came out a fighter
C30_Witness ==
    /\ spawn.op = "single" /\ spawn.type = "drone" /\ spawn.warned
    /\ spawn.created[1].type = "fighter"
    /\ spawn.created[1].speed > EnemyTypes("fighter").speed

-----------------------------------------------------------------------------
(* GameState on its own (SpecGameState) *)

\* loseLife calls explored after a reset
MaxLossCalls == 5
\* highest score explored
MaxScore == 500
\* kills explored
MaxKills == 2
\* the points addScore is called with
ScorePoints == {0, 100, 250}

\* the record of a GameState method call
CallOf(op, n, returned) ==
    [NoHit EXCEPT !.call = [op |-> op, n |-> n, returned |-> returned]]

\* gameState.loseLife()
GsLoseLife ==
    /\ hit.call.n < MaxLossCalls
    /\ LET r == gameStateLoseLife(gs)
       IN /\ gs' = r.gs
          /\ hit' = CallOf("loseLife", hit.call.n + 1, r.returned)
    /\ UNCHANGED <<now, bossVars, player, mgrVars, itemVars, pools, mine, enemy,
                   spawn, progress>>

\* gameState.addScore(points)
GsAddScore(points) ==
    /\ gs.score + points <= MaxScore
    /\ gs' = addScore(gs, points)
    /\ hit' = CallOf("addScore", hit.call.n, gs'.score)
    /\ UNCHANGED <<now, bossVars, player, mgrVars, itemVars, pools, mine, enemy,
                   spawn, progress>>

\* gameState.recordKill()
GsRecordKill ==
    /\ gs.enemiesKilled < MaxKills
    /\ gs' = recordKill(gs)
    /\ hit' = CallOf("recordKill", hit.call.n, 0)
    /\ UNCHANGED <<now, bossVars, player, mgrVars, itemVars, pools, mine, enemy,
                   spawn, progress>>

\* gameState.reset()
GsReset ==
    /\ gs' = InitGs
    /\ hit' = CallOf("reset", 0, 0)
    /\ UNCHANGED <<now, bossVars, player, mgrVars, itemVars, pools, mine, enemy,
                   spawn, progress>>

NextGameState ==
    \/ GsLoseLife
    \/ \E points \in ScorePoints : GsAddScore(points)
    \/ GsRecordKill
    \/ GsReset

SpecGameState == Init /\ [][NextGameState]_vars

\* C32: GameState.loseLife takes exactly one from lives on every call and
\* returns the new value, with no floor at zero: lives is the starting
\* number less the calls made, negative after more calls than that number.
C32_LoseLifeNoFloor ==
    /\ [][hit'.call.op = "loseLife" /\ hit' # hit
            => /\ gs'.lives = gs.lives - 1
               /\ hit'.call.returned = gs'.lives
               /\ gs'.score = gs.score
               /\ gs'.enemiesKilled = gs.enemiesKilled]_vars
    /\ [](gs.lives = START_LIVES - hit.call.n)
    /\ [](hit.call.n > START_LIVES => gs.lives < 0)

\* one call more than the starting lives left lives at minus one
C32_Witness ==
    /\ hit.call.op = "loseLife" /\ hit.call.n = START_LIVES + 1
    /\ gs.lives = 0 - 1 /\ hit.call.returned = 0 - 1

-----------------------------------------------------------------------------
(* Credits (SpecCredits) *)

\* highest balance explored
MaxCredits == 300
\* the amounts credits are added and spent in
CreditAmounts == {0, 30, 50, 75, 100, 150}

\* progress.addCredits(amount)
AddCredits(amount) ==
    /\ progress.totalCredits + amount <= MaxCredits
    /\ progress' = addCredits(progress, amount)
    /\ UNCHANGED <<now, bossVars, player, mgrVars, itemVars, pools, gs, mine,
                   enemy, hit, spawn>>

\* progress.spendCredits(amount)
SpendCredits(amount) ==
    /\ progress' = spendCredits(progress, amount)
    /\ UNCHANGED <<now, bossVars, player, mgrVars, itemVars, pools, gs, mine,
                   enemy, hit, spawn>>

\* progress.reset()
ResetProgress ==
    /\ progress' = save([NewProgressManager EXCEPT !.op = "reset"])
    /\ UNCHANGED <<now, bossVars, player, mgrVars, itemVars, pools, gs, mine,
                   enemy, hit, spawn>>

NextCredits ==
    \/ \E amount \in CreditAmounts : AddCredits(amount)
    \/ \E amount \in CreditAmounts : SpendCredits(amount)
    \/ ResetProgress

SpecCredits == Init /\ [][NextCredits]_vars

\* C33: spendCredits(amount) succeeds, returning true and taking amount from
\* the balance, only when the balance is at least amount; otherwise it returns
\* false and leaves the balance as it was, so spending never makes the balance
\* negative.
C33_SpendOnlyWhenAffordable ==
    /\ [][progress'.op = "spendCredits" /\ progress' # progress
            => /\ progress'.ok = (progress.totalCredits >= progress'.amount)
               /\ progress'.ok
                     => progress'.totalCredits
                            = progress.totalCredits - progress'.amount
               /\ ~progress'.ok
                     => /\ progress'.totalCredits = progress.totalCredits
                        /\ progress'.saved = progress.saved]_vars
    /\ [](progress.totalCredits >= 0)

\* a spend the balance could not cover was refused
C33_Witness ==
    /\ progress.op = "spendCredits" /\ ~progress.ok
    /\ progress.totalCredits = 30 /\ progress.amount = 50

-----------------------------------------------------------------------------
(* Shield and invincibility timers (SpecShield) *)

\* shield power-ups collected in a session
MaxShields == 2

\* the player collecting a shield power-up: PowerUp.applyEffect('shield')
CollectShield ==
    /\ ~gs.gameOver
    /\ ledger.shields < MaxShields
    /\ LET e == applyEffect(player, ledger, "shield")
       IN player' = e.player /\ ledger' = e.ledger
    /\ UNCHANGED <<now, bossVars, mgrVars, items, pools, stateVars>>

\* the shield timer's callback: Player.deactivateShield
ShieldExpires ==
    /\ player.shieldTimer
    /\ player' = [deactivateShield(player) EXCEPT !.shieldTimer = FALSE]
    /\ UNCHANGED <<now, bossVars, mgrVars, itemVars, pools, stateVars>>

NextShield ==
    \/ EnemyBulletHitPlayer
    \/ SpawnMine
    \/ MineHitPlayer
    \/ CollectShield
    \/ InvincibilityEnd
    \/ ShieldExpires

SpecShield == Init /\ [][NextShield]_vars

\* C35: the player is invincible whenever a shield is active or a
\* makeInvincible period is still running: the end of one of the two never
\* clears the invincibility the other still owes.
C35_InvincibleWhileOwed ==
    (player.shieldActive \/ player.flashTweens > 0) => player.isInvincible

====
